---- MODULE Spec2Model ----
(***************************************************************************)
(* The request-admission gateway of the B2B payment service: the ordered   *)
(* middleware chain TenantExtraction -> Authorize -> Idempotent -> handler *)
(* (cmd/api main), the embedded policy client and the Redis-backed         *)
(* idempotency cache.                                                      *)
(*                                                                         *)
(* Strings are sequences of one-character strings, so that prefix, suffix  *)
(* and concatenation are computed as strings.HasPrefix, TrimSuffix and     *)
(* fmt.Sprintf compute them.  Paths are sequences of path segments.        *)
(***************************************************************************)
EXTENDS Integers, Sequences, FiniteSets, TLC

VARIABLES
    req,        \* slot -> the request being served there (echo.Context + ghosts)
    cache,      \* Redis: key -> stored value (absent keys are not in DOMAIN)
    policy,     \* OPAClient.policy: the compiled policy in force
    calls,      \* ghost: (tenant, Idempotency-Key) -> handler invocations
    excused,    \* ghost: pairs that met a cache error, a 5xx or an expiry
    stored,     \* ghost: key -> who wrote the value and the response it records
    started,    \* ghost: number of requests accepted so far
    updateErr,  \* the error returned by the last UpdatePolicy call
    observable, \* the values a read of OPAClient.policy may return
    last,       \* ghost: (tenant, Idempotency-Key) -> status of the last handler response
    svc,        \* the payment service: its repository and the last call's result
    cb,         \* a circuit breaker: its fields, the clock and the last call's result
    answer,     \* the last call of OPAClient.Evaluate from outside the chain
    retry,      \* a call of RetryWithContext: its loop and its context
    worker,     \* the payment worker's queues in Redis and its clock
    lb,         \* the load balancer: its servers, its health checker, its requests
    mig         \* the migrator's database and the run of Up

vars == <<req, cache, policy, calls, excused, stored, started, updateErr, observable, last,
          svc, cb, answer, retry, worker, lb, mig>>

\* The state of the request-admission gateway.
gateway == <<req, cache, policy, calls, excused, stored, started, updateErr, observable, last,
             answer>>

----------------------------------------------------------------------------
(* Bounds *)

\* Requests served in one behaviour.
MaxRequests == 2

\* Requests served in one behaviour of the idempotency cache on its own.
MaxCacheRequests == 3

\* Requests the server accepts while the routes are checked against the policy.
MaxRouteRequests == 1

\* Payments the service creates.
MaxPayments == 2

\* Calls made through the circuit breaker, and the last reading of the clock.
MaxBreakerCalls == 4
MaxClock == 3

\* Calls of Migrator.Up.
MaxUpCalls == 3

\* Requests through the proxy, and calls of AddServer and RemoveServer.
MaxProxyRequests == 2
MaxServerChanges == 2

\* Jobs enqueued, ticks of the worker's clock, and Redis commands that fail.
MaxJobs == 1
MaxWorkerClock == 18
MaxRedisFailures == 1

\* Calls of RetryWithContext, and the largest MaxAttempts of a RetryConfig.
MaxRetryCalls == 2
MaxAttemptsBound == 3

\* The request tasks of the server; requests are served one after another.
Slots == {1}

\* The request tasks of a server that serves two requests at a time.
RaceSlots == {1, 2}

----------------------------------------------------------------------------
(* Strings *)

HasPrefix(s, p) == Len(s) >= Len(p) /\ SubSeq(s, 1, Len(p)) = p

HasSuffix(s, p) == Len(s) >= Len(p) /\ SubSeq(s, Len(s) - Len(p) + 1, Len(s)) = p

TrimPrefix(s, p) == IF HasPrefix(s, p) THEN SubSeq(s, Len(p) + 1, Len(s)) ELSE s

TrimSuffix(s, p) == IF HasSuffix(s, p) THEN SubSeq(s, 1, Len(s) - Len(p)) ELSE s

\* "tenant-"
TenantPrefix == <<"t", "e", "n", "a", "n", "t", "-">>

\* ".yourorg.com"
DomainSuffix == <<".", "y", "o", "u", "r", "o", "r", "g", ".", "c", "o", "m">>

----------------------------------------------------------------------------
(* Inputs *)

\* Tenant ids a certificate authority may have issued; a common name is free
\* text, so an id may contain ':'.
TenantIds == { <<"a">>, <<"a", ":", "b">> }

\* Client-supplied Idempotency-Key header values.
ClientKeys == { <<"c">>, <<"b", ":", "c">> }

\* The absent (or empty) Idempotency-Key header.
NoKey == <<>>

ValidCN(id) == TenantPrefix \o id \o DomainSuffix

\* Subject common names of leaf certificates.
CommonNames ==
    { ValidCN(id) : id \in TenantIds }
      \cup { <<>>,                               \* no common name
             <<"a">>,                            \* neither prefix nor suffix
             TenantPrefix \o <<"a">>,            \* no suffix
             <<"a">> \o DomainSuffix,            \* no prefix
             TenantPrefix \o DomainSuffix }      \* empty id

\* tls.ConnectionState as the middleware reads it: nil or not, the common
\* names of PeerCertificates, the number of VerifiedChains.
NoTLS == [present |-> FALSE, peers |-> <<>>, chains |-> 0]

\* A connection whose leaf certificate has common name cn and was verified.
Verified(cn) == [present |-> TRUE, peers |-> <<cn>>, chains |-> 1]

TLSStates ==
    { NoTLS,
      [present |-> TRUE, peers |-> <<>>, chains |-> 0],
      [present |-> TRUE, peers |-> << ValidCN(<<"a">>) >>, chains |-> 0] }
      \cup { Verified(cn) : cn \in CommonNames }

Methods == {"GET", "POST", "PUT", "PATCH"}

PaymentsPath == <<"api", "v1", "payments">>

\* Routes registered under /api/v1, as (method, path) of a request.
Routes ==
    { <<"GET", PaymentsPath>>,
      <<"POST", PaymentsPath>>,
      <<"PUT", PaymentsPath \o <<"1">> >>,
      <<"PATCH", PaymentsPath \o <<"1">> >>,
      <<"POST", PaymentsPath \o <<"1", "process">> >> }

Request(tls, method, path, key) ==
    [tls |-> tls, method |-> method, path |-> path, key |-> key]

\* The requests clients send: a create-payment request over every connection
\* state, for every tenant and key; every route for one tenant, with and
\* without a key.
Requests ==
    { Request(tls, "POST", PaymentsPath, <<"c">>) : tls \in TLSStates }
      \cup { Request(Verified(ValidCN(id)), "POST", PaymentsPath, key) :
                id \in TenantIds, key \in ClientKeys }
      \cup { Request(Verified(ValidCN(<<"a">>)), route[1], route[2], key) :
                route \in Routes, key \in {NoKey, <<"c">>} }

\* The requests of one tenant, one per route.
TenantRequests ==
    { Request(Verified(ValidCN(<<"a">>)), route[1], route[2], <<"c">>) : route \in Routes }

----------------------------------------------------------------------------
(* HTTP responses *)

NoHeaders == [h \in {} |-> <<>>]

Response(status, headers, body) ==
    [status |-> status, headers |-> headers, body |-> body]

\* Nothing written to the response yet.
NoResponse == Response(0, NoHeaders, <<>>)

\* echo.NewHTTPError(code, message) as rendered by the error handler.
HTTPError(code, message) == Response(code, NoHeaders, <<message>>)

----------------------------------------------------------------------------
(* encoding/json, as used for idempotencyRecord *)

\* Body bytes are drawn from: a digit, white space (a blank or the new line
\* that echo's c.JSON appends), the array brackets, and a letter outside any
\* JSON grammar.
IsSpace(ch) == ch = " "

RECURSIVE TrimLeft(_)
TrimLeft(s) == IF s # <<>> /\ IsSpace(Head(s)) THEN TrimLeft(Tail(s)) ELSE s

RECURSIVE TrimRight(_)
TrimRight(s) ==
    IF s # <<>> /\ IsSpace(s[Len(s)]) THEN TrimRight(SubSeq(s, 1, Len(s) - 1)) ELSE s

TrimSpace(s) == TrimRight(TrimLeft(s))

IsNumber(s) == s # <<>> /\ \A i \in 1..Len(s) : s[i] = "1"

\* A JSON value over the byte set above: a number, or an array of at most one
\* value.
RECURSIVE IsValue(_)
IsValue(s) ==
    \/ IsNumber(s)
    \/ /\ Len(s) >= 2
       /\ s[1] = "[" /\ s[Len(s)] = "]"
       /\ LET inner == TrimSpace(SubSeq(s, 2, Len(s) - 1))
          IN  inner = <<>> \/ IsValue(inner)

\* json.Valid
ValidJSON(s) == IsValue(TrimSpace(s))

\* json.Compact: insignificant white space removed.
NotSpace(ch) == ~IsSpace(ch)

Compact(s) == SelectSeq(s, NotSpace)

\* The four bytes of the literal null.
NullLiteral == <<"n", "u", "l", "l">>

\* json.RawMessage.MarshalJSON followed by the encoder's compaction: a nil
\* message is written as null, anything else must be valid JSON.
\* bytes.Buffer.Bytes() of a buffer never written to is nil.
MarshalRaw(body) ==
    IF body = <<>> THEN [ok |-> TRUE, text |-> NullLiteral]
    ELSE IF ValidJSON(body) THEN [ok |-> TRUE, text |-> Compact(body)]
    ELSE [ok |-> FALSE, text |-> <<>>]

\* The value Redis holds when json.Marshal failed: recJSON is nil, SET stores
\* the empty string.
EmptyValue == [decodable |-> FALSE, status_code |-> 0, headers |-> NoHeaders, body |-> <<>>]

\* json.Marshal(rec): the JSON object as a record of its members.
MarshalRecord(rec) ==
    LET raw == MarshalRaw(rec.Body)
    IN  IF raw.ok
        THEN [decodable |-> TRUE, status_code |-> rec.StatusCode,
              headers |-> rec.Headers, body |-> raw.text]
        ELSE EmptyValue

\* json.Unmarshal(value, &rec): RawMessage keeps the member's bytes as they are.
UnmarshalRecord(value) ==
    [StatusCode |-> value.status_code, Headers |-> value.headers, Body |-> value.body]

----------------------------------------------------------------------------
(* echo.Context store *)

NoContext == [k \in {} |-> <<>>]

\* c.Set(key, value)
ContextSet(ctx, key, value) ==
    [k \in DOMAIN ctx \cup {key} |-> IF k = key THEN value ELSE ctx[k]]

TenantContextKey == "tenant_id"

\* GetTenantID: the value under tenant_id, an error when it is missing or empty.
GetTenantID(ctx) ==
    IF TenantContextKey \in DOMAIN ctx /\ ctx[TenantContextKey] # <<>>
    THEN [ok |-> TRUE, id |-> ctx[TenantContextKey]]
    ELSE [ok |-> FALSE, id |-> <<>>]

----------------------------------------------------------------------------
(* Policy client *)

RuleNames == {"health", "whoami", "list", "create", "get", "update"}

\* starts_with(input.path, "/api/v1/payments/")
\* Mutant: the collection path itself counts as a path under it.
UnderPaymentsOrEqual(path) == HasPrefix(path, PaymentsPath)

UnderPayments(path) == Len(path) > Len(PaymentsPath) /\ HasPrefix(path, PaymentsPath)

has_tenant_id(input) == input.tenant_id # <<>>

\* The body of each allow rule of defaultPolicy.
RuleMatches(rule, input) ==
    CASE rule = "health" ->
           input.method = "GET" /\ input.path = <<"health">>
      [] rule = "whoami" ->
           input.method = "GET" /\ input.path = <<"api", "v1", "whoami">>
             /\ has_tenant_id(input)
      [] rule = "list" ->
           input.method = "GET" /\ input.path = PaymentsPath /\ has_tenant_id(input)
      [] rule = "create" ->
           input.method = "POST" /\ input.path = PaymentsPath /\ has_tenant_id(input)
             /\ "create_payments" \in input.attributes.permissions
      [] rule = "get" ->
           input.method = "GET" /\ UnderPayments(input.path) /\ has_tenant_id(input)
      [] rule = "update" ->
           input.method = "PUT" /\ UnderPayments(input.path) /\ has_tenant_id(input)
             /\ "update_payments" \in input.attributes.permissions
      [] rule = "label" ->
           \* allow = "maybe" { input.method == "POST" }, a rule of a replacement source
           input.method = "POST"

\* The value a rule gives allow when its body holds: true for the rules of
\* defaultPolicy, a string for the rule of a replacement source.
RuleValue(rule) == IF rule = "label" THEN "maybe" ELSE "true"

\* A policy source: whether it compiles, the default value it declares for
\* allow ("undefined" when it declares none), and its allow rules.
PolicySource(valid, default, rules) ==
    [valid |-> valid, default |-> default, rules |-> rules]

defaultPolicy == PolicySource(TRUE, "false", RuleNames)

\* Sources an operator may hand to UpdatePolicy.
PolicySources ==
    { defaultPolicy,
      PolicySource(TRUE, "false", {"whoami"}),
      PolicySource(TRUE, "undefined", {"create"}),
      PolicySource(TRUE, "true", {}),
      PolicySource(TRUE, "false", {"create", "label"}),
      PolicySource(FALSE, "false", RuleNames) }

\* The zero rego.PreparedEvalQuery a failed PrepareForEval returns.
NoQuery == [default |-> "undefined", rules |-> {}]

\* rego.New(...).PrepareForEval
PrepareForEval(source) ==
    [err |-> ~source.valid,
     query |-> IF source.valid
               THEN [default |-> source.default, rules |-> source.rules]
               ELSE NoQuery]

SomeRuleMatches(compiled, input) ==
    \E rule \in compiled.rules : RuleMatches(rule, input)

\* The values the matching rules give allow.
RuleValues(compiled, input) ==
    {RuleValue(rule) : rule \in {n \in compiled.rules : RuleMatches(n, input)}}

\* The query data.b2b_payments.auth.allow: an evaluation error when the
\* matching rules give allow two different values (a complete rule must not
\* produce multiple outputs), else the result set: empty when allow is
\* undefined, else its one value ("true", "false" or a value that is no boolean).
Eval(compiled, input) ==
    LET values == RuleValues(compiled, input)
    IN  IF Cardinality(values) > 1 THEN [err |-> TRUE, results |-> <<>>]
        ELSE IF values # {} THEN [err |-> FALSE, results |-> <<CHOOSE v \in values : TRUE>>]
        ELSE IF compiled.default = "undefined" THEN [err |-> FALSE, results |-> <<>>]
        ELSE [err |-> FALSE, results |-> <<compiled.default>>]

\* Mutant: a result that is no boolean is taken for an allow.
AsBoolLenient(value) == [ok |-> TRUE, allowed |-> value # "false"]

\* results[0].Expressions[0].Value.(bool)
AsBool(value) == [ok |-> value \in {"true", "false"}, allowed |-> value = "true"]

\* OPAClient.Evaluate: the decision, or an error and no decision.
Evaluate(compiled, input) ==
    LET out == Eval(compiled, input)
    IN  IF out.err
        THEN [err |-> TRUE, Allowed |-> FALSE, Reason |-> ""]
        ELSE IF Len(out.results) = 0
        THEN [err |-> FALSE, Allowed |-> FALSE, Reason |-> "no policy decision"]
        ELSE IF ~AsBool(out.results[1]).ok
        THEN [err |-> FALSE, Allowed |-> FALSE, Reason |-> "invalid policy result"]
        ELSE IF AsBool(out.results[1]).allowed
        THEN [err |-> FALSE, Allowed |-> TRUE, Reason |-> ""]
        ELSE [err |-> FALSE, Allowed |-> FALSE, Reason |-> "access denied by policy"]

\* The attribute bag the middleware supplies.
MiddlewareAttributes ==
    [permissions |-> {"create_payments", "update_payments", "read_payments"},
     tier |-> "enterprise", compliant |-> TRUE]

PolicyInput(tenantID, method, path) ==
    [tenant_id |-> tenantID, method |-> method, path |-> path,
     attributes |-> MiddlewareAttributes]

----------------------------------------------------------------------------
(* Identity resolver *)

\* Mutant: the verified-chain check is left out.
HasVerifiedChainUnchecked(tls) == TRUE

\* tlsConnState.VerifiedChains is neither nil nor empty.
HasVerifiedChain(tls) == tls.chains > 0

\* Mutant: only the prefix is checked.
MatchesPatternPrefixOnly(cn) == HasPrefix(cn, TenantPrefix)

\* The common name follows the pattern tenant-<id>.yourorg.com.
MatchesPattern(cn) == HasPrefix(cn, TenantPrefix) /\ HasSuffix(cn, DomainSuffix)

\* Mutant: the domain suffix is left on the id.
StripCNPrefixOnly(cn) == TrimPrefix(cn, TenantPrefix)

\* The common name without the prefix and the suffix.
StripCN(cn) == TrimSuffix(TrimPrefix(cn, TenantPrefix), DomainSuffix)

\* The decision of TenantExtraction on a connection state: the status of the
\* rejection (0 when the request passes) and the tenant id put in the context.
ExtractTenant(tls) ==
    IF ~tls.present \/ Len(tls.peers) = 0
    THEN [code |-> 401, message |-> "missing client certificate", id |-> <<>>]
    ELSE IF ~HasVerifiedChain(tls)
    THEN [code |-> 401, message |-> "client certificate not verified by trusted CA",
          id |-> <<>>]
    ELSE LET cn == tls.peers[1]
             tenantID == StripCN(cn)
         IN  IF cn = <<>>
             THEN [code |-> 401, message |-> "client certificate missing Common Name",
                   id |-> <<>>]
             ELSE IF ~MatchesPattern(cn)
             THEN [code |-> 403, message |-> "invalid client certificate CN", id |-> <<>>]
             ELSE IF tenantID = <<>>
             THEN [code |-> 403, message |-> "empty tenant ID in certificate", id |-> <<>>]
             ELSE [code |-> 0, message |-> "", id |-> tenantID]

----------------------------------------------------------------------------
(* Idempotency cache *)

\* "idempotency:"
KeyNamespace == <<"i", "d", "e", "m", "p", "o", "t", "e", "n", "c", "y", ":">>

\* fmt.Sprintf("idempotency:%s:%s", tenantID, idempotencyKey)
CacheKey(tenantID, idempotencyKey) ==
    KeyNamespace \o tenantID \o <<":">> \o idempotencyKey

\* Mutant: every method is treated as state-changing.
StateChangingAll(method) == TRUE

StateChanging(method) == method \in {"POST", "PUT", "PATCH"}

\* headers[k] = vv[0] for every header that has a value.
FirstValues(headers) ==
    [k \in {h \in DOMAIN headers : Len(headers[h]) > 0} |-> headers[k][1]]

\* c.Response().Header().Set(k, v) for every stored header.
SetHeaders(headers, recHeaders) ==
    [k \in DOMAIN headers \cup DOMAIN recHeaders |->
        IF k \in DOMAIN recHeaders THEN <<recHeaders[k]>> ELSE headers[k]]

\* The record built from what the recorder captured (status 0 reads as 200).
RecordOf(recorder) ==
    [StatusCode |-> IF recorder.status = 0 THEN 200 ELSE recorder.status,
     Headers |-> FirstValues(recorder.headers),
     Body |-> recorder.body]

\* Mutant: every captured response is stored.
StorableAlways(status) == TRUE

\* Whether the captured status is stored: 4xx and below, never 5xx.
Storable(status) == status < 500

\* Mutant: the result of the GET is ignored.
LookupAlwaysMiss(m, key) == "miss"

\* Mutant: the error of json.Unmarshal is ignored.
LookupDecodeUnchecked(m, key) == IF key \notin DOMAIN m THEN "miss" ELSE "hit"

\* rdb.Get(key) and the decoding of what it returned.
Lookup(m, key) ==
    IF key \notin DOMAIN m THEN "miss"
    ELSE IF m[key].decodable THEN "hit"
    ELSE "corrupt"

\* The response a cache hit writes.
Replay(resp, rec) == Response(rec.StatusCode, SetHeaders(resp.headers, rec.Headers), rec.Body)

----------------------------------------------------------------------------
(* Business handler *)

ContentJSON == [h \in {"Content-Type"} |-> <<"application/json">>]

TwoCookies == [h \in {"Set-Cookie"} |-> <<"x=1", "y=2">>]

\* What a handler may write: status, headers, body.  Status 0 is a handler
\* that returns without writing.
HandlerResponses ==
    { Response(201, ContentJSON, <<"[", "1", "]">>),
      Response(201, ContentJSON, <<"[", "1", "]", " ">>),
      Response(201, TwoCookies, <<"1">>),
      Response(204, NoHeaders, <<>>),
      Response(200, NoHeaders, <<"x">>),
      Response(500, ContentJSON, <<"[", "]", " ">>),
      Response(0, NoHeaders, <<>>) }

\* What the client receives: net/http sends 200 when nothing set a status.
Sent(resp) == [resp EXCEPT !.status = IF @ = 0 THEN 200 ELSE @]

----------------------------------------------------------------------------
(* Payment service *)

\* A Payment, as far as the service reads or writes it.  ID 0 is the nil
\* pointer; ProcessedAt and CompletedAt say whether the time is set.
Payment(id, tenantID, amount, status, description) ==
    [ID |-> id, TenantID |-> tenantID, Amount |-> amount, Status |-> status,
     Description |-> description, ProcessedAt |-> FALSE, CompletedAt |-> FALSE]

NoPayment == Payment(0, <<>>, 0, "", "")

NoStats ==
    [TotalCount |-> 0, TotalAmount |-> 0, PendingCount |-> 0, CompletedCount |-> 0,
     FailedCount |-> 0, CompletedAmount |-> 0, FailedAmount |-> 0]

\* What a call returns: the error ("" is nil) and the values of the
\* operation's result tuple.
Returned(err, payment, items, total, stats) ==
    [err |-> err, payment |-> payment, items |-> items, total |-> total, stats |-> stats]

ErrorOnly(err) == Returned(err, NoPayment, {}, 0, NoStats)

\* The effect of an operation: the map afterwards and what is returned.
Effect(payments, returned) == [payments |-> payments, returned |-> returned]

\* s.payments is a map from payment id to *Payment; ids are 1, 2, ... for the
\* uuids in the order they were generated.
NewPaymentService ==
    [payments |-> <<>>,
     call |-> [op |-> "", tenantID |-> <<>>, id |-> 0, returned |-> ErrorOnly("")]]

validateCreatePaymentRequest(tenantID, request) ==
    IF tenantID = <<>> THEN "tenant ID is required"
    ELSE IF request.Amount <= 0 THEN "amount must be greater than 0"
    ELSE IF request.SourceAccount = "" THEN "source account is required"
    ELSE IF request.DestinationAccount = "" THEN "destination account is required"
    ELSE IF request.SourceAccount = request.DestinationAccount
    THEN "source and destination accounts cannot be the same"
    ELSE ""

CreatePayment(payments, tenantID, request) ==
    LET err == validateCreatePaymentRequest(tenantID, request)
        payment == Payment(Len(payments) + 1, tenantID, request.Amount, "pending",
                           request.Description)
    IN  IF err # "" THEN Effect(payments, ErrorOnly(err))
        ELSE Effect(Append(payments, payment), Returned("", payment, {}, 0, NoStats))

\* Mutant: any tenant owns any payment.
OwnsAlways(payment, tenantID) == TRUE

\* payment.TenantID != tenantID is "access denied".
Owns(payment, tenantID) == payment.TenantID = tenantID

\* The lookup and ownership check every operation on one payment starts with.
Find(payments, tenantID, paymentID) ==
    IF paymentID \notin DOMAIN payments THEN "payment not found"
    ELSE IF ~Owns(payments[paymentID], tenantID) THEN "access denied"
    ELSE ""

GetPayment(payments, tenantID, paymentID) ==
    LET err == Find(payments, tenantID, paymentID)
    IN  IF err # "" THEN Effect(payments, ErrorOnly(err))
        ELSE Effect(payments, Returned("", payments[paymentID], {}, 0, NoStats))

\* payment.Status != PaymentStatusPending refuses an update and a processing.
IsPending(payment) == payment.Status = "pending"

UpdatePayment(payments, tenantID, paymentID, request) ==
    LET err == Find(payments, tenantID, paymentID)
    IN  IF err # "" THEN Effect(payments, ErrorOnly(err))
        ELSE IF ~IsPending(payments[paymentID])
        THEN Effect(payments, ErrorOnly("payment cannot be updated in current status"))
        ELSE LET payment == [payments[paymentID] EXCEPT
                               !.Description = IF request.Description # "nil"
                                               THEN request.Description ELSE @]
             IN  Effect([payments EXCEPT ![paymentID] = payment],
                         Returned("", payment, {}, 0, NoStats))

\* The filter's conditions on one payment; a nil filter or a nil Status
\* pointer ("nil") lets every payment through.
Matches(payment, filter) ==
    filter.nil \/ filter.Status = "nil" \/ payment.Status = filter.Status

\* Go ranges over the map in an unspecified order, so the page cut out of the
\* matching payments is any selection of the page's length.
ListPayments(payments, tenantID, filter) ==
    LET matching == { id \in DOMAIN payments :
                        payments[id].TenantID = tenantID /\ Matches(payments[id], filter) }
        total == Cardinality(matching)
        end == IF filter.Offset + filter.Limit > total THEN total
               ELSE filter.Offset + filter.Limit
        pages == IF filter.nil \/ filter.Limit <= 0 THEN {matching}
                 ELSE IF filter.Offset >= total THEN {{}}
                 ELSE { page \in SUBSET matching : Cardinality(page) = end - filter.Offset }
    IN  { Effect(payments, Returned("", NoPayment, {payments[id] : id \in page}, total,
                                     NoStats)) : page \in pages }

ProcessPayment(payments, tenantID, paymentID) ==
    LET err == Find(payments, tenantID, paymentID)
    IN  IF err # "" THEN Effect(payments, ErrorOnly(err))
        ELSE IF ~IsPending(payments[paymentID])
        THEN Effect(payments, ErrorOnly("payment cannot be processed in current status"))
        ELSE LET processing == [payments[paymentID] EXCEPT !.Status = "processing",
                                                            !.ProcessedAt = TRUE]
                 completed == [processing EXCEPT !.Status = "completed",
                                                 !.CompletedAt = TRUE]
             IN  Effect([payments EXCEPT ![paymentID] = completed], ErrorOnly(""))

\* Mutant: a payment in any status is cancelled.
CancellableAlways(payment) == TRUE

Cancellable(payment) == payment.Status \in {"pending", "processing"}

CancelPayment(payments, tenantID, paymentID) ==
    LET err == Find(payments, tenantID, paymentID)
    IN  IF err # "" THEN Effect(payments, ErrorOnly(err))
        ELSE IF ~Cancellable(payments[paymentID])
        THEN Effect(payments, ErrorOnly("payment cannot be cancelled in current status"))
        ELSE Effect([payments EXCEPT ![paymentID] = [@ EXCEPT !.Status = "cancelled"]],
                     ErrorOnly(""))

\* The loop of GetPaymentStats over the payments up to id n.
RECURSIVE StatsUpTo(_, _, _)
StatsUpTo(payments, tenantID, n) ==
    IF n = 0 THEN NoStats
    ELSE LET stats == StatsUpTo(payments, tenantID, n - 1)
             payment == payments[n]
         IN  IF payment.TenantID # tenantID THEN stats
             ELSE [stats EXCEPT
                     !.TotalCount = @ + 1,
                     !.TotalAmount = @ + payment.Amount,
                     !.PendingCount = IF payment.Status = "pending" THEN @ + 1 ELSE @,
                     !.CompletedCount = IF payment.Status = "completed" THEN @ + 1 ELSE @,
                     !.CompletedAmount = IF payment.Status = "completed"
                                         THEN @ + payment.Amount ELSE @,
                     !.FailedCount = IF payment.Status = "failed" THEN @ + 1 ELSE @,
                     !.FailedAmount = IF payment.Status = "failed"
                                      THEN @ + payment.Amount ELSE @]

GetPaymentStats(payments, tenantID) ==
    Effect(payments,
            Returned("", NoPayment, {}, 0, StatsUpTo(payments, tenantID, Len(payments))))

\* Tenants that call the service.
Callers == TenantIds

\* Payment ids callers name: those generated so far and one never generated.
PaymentIDs == 1..(MaxPayments + 1)

CreatePaymentRequests ==
    { [Amount |-> 5, SourceAccount |-> "s", DestinationAccount |-> "d", Description |-> "d0"],
      [Amount |-> 0, SourceAccount |-> "s", DestinationAccount |-> "d", Description |-> "d0"],
      [Amount |-> 5, SourceAccount |-> "s", DestinationAccount |-> "s", Description |-> "d0"] }

UpdatePaymentRequests == { [Description |-> "d1"], [Description |-> "nil"] }

PaymentFilters ==
    { [nil |-> TRUE, Status |-> "nil", Limit |-> 0, Offset |-> 0],
      [nil |-> FALSE, Status |-> "pending", Limit |-> 0, Offset |-> 0],
      [nil |-> FALSE, Status |-> "nil", Limit |-> 1, Offset |-> 0],
      [nil |-> FALSE, Status |-> "nil", Limit |-> 1, Offset |-> 2] }

----------------------------------------------------------------------------
(* Circuit breaker *)

\* CircuitBreakerConfig of the breaker under check; time is counted in ticks.
maxFailures == 2
resetTimeout == 2

ErrCircuitBreakerOpen == "circuit breaker is open"

\* time.Time{}, the zero time: a time long before every clock reading.
ZeroTime == 0 - (resetTimeout + 1)

\* The fields of a CircuitBreaker the mutex guards.
Breaker(state, failures, lastFailTime) ==
    [state |-> state, failures |-> failures, lastFailTime |-> lastFailTime]

\* Mutant: every request is allowed.
allowRequestAlways(b, now) == TRUE

allowRequest(b, now) ==
    CASE b.state = "Closed" -> TRUE
      [] b.state = "Open" -> now - b.lastFailTime >= resetTimeout
      [] b.state = "HalfOpen" -> TRUE
      [] OTHER -> FALSE

setState(b, newState) == IF b.state # newState THEN [b EXCEPT !.state = newState] ELSE b

onSuccess(b) ==
    LET reset == [b EXCEPT !.failures = 0]
    IN  IF reset.state = "HalfOpen" THEN setState(reset, "Closed") ELSE reset

onFailure(b, now) ==
    LET counted == [b EXCEPT !.failures = @ + 1, !.lastFailTime = now]
    IN  IF counted.failures >= maxFailures THEN setState(counted, "Open") ELSE counted

recordResult(b, success, now) == IF success THEN onSuccess(b) ELSE onFailure(b, now)

\* What fn returns: a value and an error ("" is nil).
FnResults ==
    { [value |-> 1, err |-> ""], [value |-> 2, err |-> ""], [value |-> 0, err |-> "e"] }

Zero == [value |-> 0, err |-> ""]

\* The goroutines that call the breaker.
BreakerTasks == {1, 2}

\* The entry points: Execute, ExecuteWithResult, ExecuteWithContextAndResult.
BreakerOps == {"Execute", "ExecuteWithResult", "ExecuteWithContextAndResult"}

\* A goroutine outside the breaker.  The fields from admitted on are ghosts:
\* whether allowRequest let the call in and the state it saw, the number of
\* times fn was invoked and a result recorded, what fn returned first.
NoCall ==
    [pc |-> "idle", op |-> "", returned |-> Zero,
     admitted |-> FALSE, saw |-> "", invoked |-> 0, recorded |-> 0, first |-> Zero]

\* The breaker after NewCircuitBreaker, the clock, the calls begun and the
\* goroutines.
NewCircuitBreaker ==
    [breaker |-> Breaker("Closed", 0, ZeroTime), now |-> 0, begun |-> 0,
     task |-> [t \in BreakerTasks |-> NoCall]]

----------------------------------------------------------------------------
(* Payment worker *)

\* NewPaymentWorker's settings, in ticks of retryDelay (5 s); the delayed job
\* processor of the worker's main runs on a 30 s ticker.
maxRetries == 3
retryDelay == 1
delayedInterval == 6

\* A PaymentJob as the queue holds it: the JSON text of ID, Retries and
\* CreatedAt (Type, TenantID and Data never change after EnqueueJob).
PaymentJob(id, retries, createdAt) ==
    [id |-> id, retries |-> retries, createdAt |-> createdAt]

NoJob == PaymentJob(0, 0, 0)

\* What the job's handler returns: the payment service's answer.
JobSucceeds == {TRUE, FALSE}

\* How a Redis command ends.
RedisReplies == {"ok", "error"}

\* LPUSH puts the member at the head of the list, BLPOP takes the head.
LPush(queue, job) == <<job>> \o queue

\* ZADD: a sorted set holds a member once, with its latest score.
ZAdd(delayed, job, score) ==
    {z \in delayed : z.job # job} \cup {[job |-> job, score |-> score]}

ZRem(delayed, job) == {z \in delayed : z.job # job}

\* The order of a sorted set: by score, then by the member's text.
Before(a, b) ==
    \/ a.score < b.score
    \/ /\ a.score = b.score
       /\ \/ a.job.id < b.job.id
          \/ a.job.id = b.job.id /\ a.job.retries < b.job.retries
          \/ /\ a.job.id = b.job.id /\ a.job.retries = b.job.retries
             /\ a.job.createdAt < b.job.createdAt

RECURSIVE Ascending(_)
Ascending(zs) ==
    IF zs = {} THEN <<>>
    ELSE LET first == CHOOSE a \in zs : \A b \in zs \ {a} : Before(a, b)
         IN  <<first.job>> \o Ascending(zs \ {first})

\* ZRANGEBYSCORE 0 max: the members that are due, in the set's order.
ZRangeByScore(delayed, max) == Ascending({z \in delayed : z.score <= max})

\* How often a job or a member has been counted in a ghost tally.
Tally(f, k) == IF k \in DOMAIN f THEN f[k] ELSE 0

Counted(f, k) == (k :> (Tally(f, k) + 1)) @@ f

\* The worker after NewPaymentWorker, with empty Redis keys. queue is the list
\* payment_jobs, delayed the sorted set payment_jobs_delayed; pc, held and
\* wakeAt are the worker goroutine inside retryJob; jobs is what the delayed
\* job processor still has to move; executed, moved and givenUp are ghosts.
NewPaymentWorker ==
    [queue |-> <<>>, delayed |-> {}, clock |-> 0, lastRound |-> 0, nextId |-> 1,
     pc |-> "poll", held |-> NoJob, wakeAt |-> 0,
     jobs |-> <<>>, failures |-> 0,
     executed |-> <<>>, moved |-> <<>>, givenUp |-> {}]

----------------------------------------------------------------------------
(* Load balancer *)

LoadBalancingStrategies == {"RoundRobin", "LeastConnections", "WeightedRoundRobin", "IPHash"}

\* The server lists NewLoadBalancer is called with, and what AddServer and
\* RemoveServer are called with.
ServerURLs == {"a", "b", "c"}
ServerLists == {<<"a">>, <<"a", "b">>}
Weights == {0, 2}

\* A *Server is its index in lb.srv; nil is 0.
Server(url, weight) == [url |-> url, healthy |-> TRUE, weight |-> weight, connections |-> 0]

ProxyTasks == {1, 2}

\* A call of the handler ProxyHandler returns: server and c are its locals,
\* idx the currentIndex it read, proxied a ghost.
NoProxy == [pc |-> "idle", server |-> 0, idx |-> 0, incr |-> FALSE, c |-> 0,
            status |-> 0, proxied |-> FALSE]

\* Before NewLoadBalancer. servers is lb.servers; array is the backing array
\* NewLoadBalancer made, of which healthChecker.servers is the slice it was
\* given; shared says lb.servers is still a slice of it.
NoLoadBalancer ==
    [up |-> FALSE, strategy |-> "RoundRobin", srv |-> <<>>, servers |-> <<>>,
     array |-> <<>>, shared |-> TRUE, currentIndex |-> 0, changes |-> 0,
     begun |-> 0, reqs |-> [t \in ProxyTasks |-> NoProxy]]

\* getHealthyServers without its test.
getHealthyServersAll(servers, srv) == servers

getHealthyServers(servers, srv) == SelectSeq(servers, LAMBDA p : srv[p].healthy)

\* What a strategy returns: the server, and whether it incremented
\* currentIndex.
Selected(server, incr) == [server |-> server, incr |-> incr]

roundRobin(servers, idx) == Selected(servers[(idx % Len(servers)) + 1], TRUE)

leastConnections(servers, srv) ==
    LET k == CHOOSE i \in 1..Len(servers) :
                 /\ \A j \in 1..Len(servers) :
                        srv[servers[i]].connections <= srv[servers[j]].connections
                 /\ \A j \in 1..(i - 1) :
                        srv[servers[j]].connections > srv[servers[i]].connections
    IN  Selected(servers[k], FALSE)

RECURSIVE WeightOf(_, _, _)
WeightOf(servers, srv, k) ==
    IF k = 0 THEN 0 ELSE WeightOf(servers, srv, k - 1) + srv[servers[k]].weight

weightedRoundRobin(servers, srv, idx) ==
    LET totalWeight == WeightOf(servers, srv, Len(servers))
    IN  IF totalWeight = 0 THEN roundRobin(servers, idx)
        ELSE LET target == idx % totalWeight
                 hits == {k \in 1..Len(servers) : target < WeightOf(servers, srv, k)}
             IN  IF hits = {} THEN Selected(servers[1], FALSE)
                 ELSE Selected(servers[CHOOSE k \in hits : \A j \in hits : k <= j], TRUE)

ipHash(servers, idx) == Selected(servers[(idx % Len(servers)) + 1], FALSE)

\* GetNextServer on the state it reads.
GetNextServer(l) ==
    LET healthyServers == getHealthyServers(l.servers, l.srv)
    IN  IF healthyServers = <<>> THEN Selected(0, FALSE)
        ELSE CASE l.strategy = "RoundRobin" -> roundRobin(healthyServers, l.currentIndex)
               [] l.strategy = "LeastConnections" -> leastConnections(healthyServers, l.srv)
               [] l.strategy = "WeightedRoundRobin" ->
                      weightedRoundRobin(healthyServers, l.srv, l.currentIndex)
               [] l.strategy = "IPHash" -> ipHash(healthyServers, l.currentIndex)

\* The index of the first server with the URL in lb.servers, 0 when none.
IndexOfURL(l, url) ==
    LET found == {i \in 1..Len(l.servers) : l.srv[l.servers[i]].url = url}
    IN  IF found = {} THEN 0 ELSE CHOOSE i \in found : \A j \in found : i <= j

\* append(s[:i], s[i+1:]...) on the backing array: the elements after i move
\* down by one, the last slot of the old slice keeps its element.
ShiftDown(array, len, i) ==
    [k \in 1..Len(array) |-> IF k >= i /\ k < len THEN array[k + 1] ELSE array[k]]

RemoveAt(seq, i) == SubSeq(seq, 1, i - 1) \o SubSeq(seq, i + 1, Len(seq))

----------------------------------------------------------------------------
(* Migrator *)

\* A migration file <version>_<name>.sql; the version is the text before the
\* first underscore, here its digits.
Migration(version, name) == [version |-> version, name |-> name]

\* The files a migration directory may hold: 001_a, 002_b, 002_c and 010_d.
MigrationFiles ==
    {Migration(<<0, 0, 1>>, "a"), Migration(<<0, 0, 2>>, "b"),
     Migration(<<0, 0, 2>>, "c"), Migration(<<0, 1, 0>>, "d")}

\* Version < Version on strings.
RECURSIVE StringLess(_, _)
StringLess(a, b) ==
    IF a = <<>> THEN b # <<>>
    ELSE IF b = <<>> THEN FALSE
    ELSE \/ Head(a) < Head(b)
         \/ Head(a) = Head(b) /\ StringLess(Tail(a), Tail(b))

\* LoadMigrations: the files sorted by version with sort.Slice, which leaves
\* the order of equal versions open.
LoadMigrations(files) ==
    LET n == Cardinality(files)
    IN  {list \in [1..n -> files] :
            /\ \A i, j \in 1..n : i # j => list[i] # list[j]
            /\ \A i, j \in 1..n : i < j => ~StringLess(list[j].version, list[i].version)}

\* The database: effects are the migrations whose SQL is committed, versions
\* the rows of schema_migrations.
EmptyDatabase == [effects |-> <<>>, versions |-> {}]

\* The test of Up's loop that ignores the applied map.
IsAppliedNever(applied, version) == FALSE

IsApplied(applied, version) == version \in applied

\* Where the transaction of one migration ends: Begin, the migration's SQL,
\* the INSERT of the version or Commit fails, or all succeed.
TxOutcomes == {"ok", "begin", "sql", "record", "commit"}

\* The INSERT also fails on the primary key of schema_migrations.
TxResult(db, migration, outcome) ==
    IF outcome = "ok" /\ migration.version \in db.versions THEN "record" ELSE outcome

\* The transaction without rollback: what was executed before the failure
\* stays.
TransactionKept(db, migration, result) ==
    [effects |-> IF result \in {"ok", "record", "commit"}
                 THEN Append(db.effects, migration) ELSE db.effects,
     versions |-> IF result \in {"ok", "commit"}
                  THEN db.versions \cup {migration.version} ELSE db.versions]

\* The database after the transaction: committed whole, or rolled back.
Transaction(db, migration, result) ==
    IF result = "ok"
    THEN [effects |-> Append(db.effects, migration),
          versions |-> db.versions \cup {migration.version}]
    ELSE db

\* NewMigrator over an empty directory and database, no call of Up running.
\* list, applied and i are Up's locals; before, attempted, ran, committed and
\* failed are ghosts of the run.
NewMigrator ==
    [files |-> {}, db |-> EmptyDatabase, calls |-> 0,
     pc |-> "idle", list |-> <<>>, applied |-> {}, i |-> 0, returned |-> "",
     before |-> EmptyDatabase, attempted |-> EmptyDatabase,
     ran |-> <<>>, committed |-> <<>>, failed |-> 0]

----------------------------------------------------------------------------
(* Retry *)

\* RetryConfig values; durations are counted in ticks.  RetryableErrors is
\* nil, DefaultRetryConfig's function or IsRetryableError.
RetryConfigs ==
    [MaxAttempts : 0..MaxAttemptsBound, InitialDelay : {1, 2}, MaxDelay : {1, 3},
     BackoffFactor : {1, 2}, RetryableErrors : {"nil", "all", "IsRetryableError"}]

\* Errors of an attempt: none, one IsRetryableError accepts, one it rejects.
AttemptErrors == {"", "timeout", "invalid"}

\* Mutant: every error is retried.
RetryableAlways(config, err) == TRUE

\* config.RetryableErrors != nil && !config.RetryableErrors(err) returns err.
Retryable(config, err) ==
    \/ config.RetryableErrors \in {"nil", "all"}
    \/ config.RetryableErrors = "IsRetryableError" /\ err = "timeout"

\* math.Pow for a whole exponent.
RECURSIVE Pow(_, _)
Pow(x, n) == IF n = 0 THEN 1 ELSE x * Pow(x, n - 1)

\* Mutant: the delay is not capped.
calculateDelayUncapped(attempt, config) ==
    config.InitialDelay * Pow(config.BackoffFactor, attempt)

calculateDelay(attempt, config) ==
    LET delay == config.InitialDelay * Pow(config.BackoffFactor, attempt)
    IN  IF delay > config.MaxDelay THEN config.MaxDelay ELSE delay

\* No call of RetryWithContext.  errs and waits are ghosts: the error of
\* every attempt and the delays waited out, in order.
NoRetry ==
    [pc |-> "idle", config |-> [MaxAttempts |-> 0, InitialDelay |-> 1, MaxDelay |-> 1,
                                BackoffFactor |-> 1, RetryableErrors |-> "nil"],
     attempt |-> 0, ctxDone |-> FALSE, lastErr |-> "", delay |-> 0, returned |-> "",
     errs |-> <<>>, waits |-> <<>>, begun |-> 0]

\* ctx.Err() and the error of line 72, which wraps lastErr.
ContextCanceled == "context canceled"
MaxAttemptsReached(lastErr) == "max retry attempts reached, last error: " \o lastErr

\* Mutant: the idempotency cache is registered before the authorizer.
ChainIdempotentFirst == <<"TenantExtraction", "TenantExtraction", "Idempotent", "Authorize">>

\* Mutant: the authorizer is registered before the identity resolver.
ChainAuthorizeFirst == <<"Authorize", "TenantExtraction", "TenantExtraction", "Idempotent">>

\* The middleware of the /api/v1 group in the order of its Use calls.
Chain == <<"TenantExtraction", "TenantExtraction", "Authorize", "Idempotent">>

\* The pipeline stage each middleware implements.
StageOf(mw) ==
    CASE mw = "TenantExtraction" -> "identity"
      [] mw = "Authorize" -> "policy"
      [] mw = "Idempotent" -> "idempotency"

NoRecorder == [status |-> 0, headers |-> NoHeaders, body |-> <<>>]

\* No call of Evaluate yet.
NoAnswer == [called |-> FALSE, input |-> PolicyInput(<<>>, "GET", <<>>),
             result |-> [err |-> FALSE, Allowed |-> FALSE, Reason |-> ""]]

\* A free slot.  The fields from stages on are ghosts: the stages entered, the
\* stage that ended the request, the identities read from the context, the
\* evaluation (whether it ran, the compiled policy it read, the one in force
\* when it started), the cache operations issued, the status of
\* the pair's previous handler response, whether the SET failed, the number
\* of the request's own SET among the writes of its key, whether the request's
\* context was cancelled and the stages entered by then.
Idle ==
    [pc |-> "idle", pos |-> 0, tls |-> NoTLS, method |-> "GET", path |-> <<>>,
     key |-> <<>>, ctx |-> NoContext, capture |-> FALSE, lookup |-> "none",
     recorder |-> NoRecorder, resp |-> NoResponse,
     stages |-> <<>>, failed |-> "none", obtained |-> <<>>, evaluated |-> FALSE,
     used |-> NoQuery, inForce |-> NoQuery,
     cacheOps |-> 0, prior |-> 0, storeErr |-> FALSE,
     wrote |-> 0, cancelled |-> FALSE, cancelStages |-> 0]

\* The state after construction, but for the request tasks.
InitRest ==
    /\ cache = [k \in {} |-> EmptyValue]
    /\ policy = PrepareForEval(defaultPolicy).query
    /\ calls = [p \in {} |-> 0]
    /\ excused = {}
    /\ stored = [k \in {} |-> 0]
    /\ started = 0
    /\ updateErr = FALSE
    /\ observable = {PrepareForEval(defaultPolicy).query}
    /\ last = [p \in {} |-> 0]
    /\ answer = NoAnswer
    /\ svc = NewPaymentService
    /\ cb = NewCircuitBreaker
    /\ retry = NoRetry
    /\ worker = NewPaymentWorker
    /\ lb = NoLoadBalancer
    /\ mig = NewMigrator

Init == req = [s \in Slots |-> Idle] /\ InitRest

\* The same server with two request tasks.
InitRace == req = [s \in RaceSlots |-> Idle] /\ InitRest

\* A request out of inputs arrives and enters the chain; limit bounds the
\* requests of one behaviour.
Start(s, inputs, limit) ==
    /\ started < limit
    /\ req[s].pc = "idle"
    /\ \E in \in inputs :
         req' = [req EXCEPT ![s] =
                   [Idle EXCEPT !.pc = "mw", !.pos = 1, !.tls = in.tls,
                                !.method = in.method, !.path = in.path, !.key = in.key]]
    /\ started' = started + 1
    /\ UNCHANGED <<cache, policy, calls, excused, stored, updateErr, observable, last, svc, cb, answer, retry, worker, lb, mig>>

\* At(s, mw): slot s is about to run middleware mw.
At(s, mw) ==
    /\ req[s].pc = "mw"
    /\ req[s].pos \in 1..Len(Chain)
    /\ Chain[req[s].pos] = mw

\* return echo.NewHTTPError(...): the chain unwinds, the error is rendered.
\* failed names the stage that ended the request.
Reject(r, code, message) ==
    [r EXCEPT !.pc = "done", !.resp = HTTPError(code, message),
              !.failed = r.stages[Len(r.stages)]]

\* next(c): the next middleware, or the route's handler after the last one.
CallNext(r) ==
    IF r.pos < Len(Chain) THEN [r EXCEPT !.pos = @ + 1] ELSE [r EXCEPT !.pc = "handler"]

Entered(r, mw) == [r EXCEPT !.stages = Append(@, StageOf(mw))]

TenantExtraction(s) ==
    /\ At(s, "TenantExtraction")
    /\ LET r == Entered(req[s], "TenantExtraction")
           d == ExtractTenant(r.tls)
       IN  req' = [req EXCEPT ![s] =
                     IF d.code # 0 THEN Reject(r, d.code, d.message)
                     ELSE CallNext([r EXCEPT !.ctx = ContextSet(@, TenantContextKey, d.id)])]
    /\ UNCHANGED <<cache, policy, calls, excused, stored, started, updateErr, observable, last, svc, cb, answer, retry, worker, lb, mig>>

\* Mutant: an evaluator error is answered like a deny.
RefusalAlwaysForbidden(result) ==
    [code |-> 403, message |-> "access denied: " \o result.Reason]

\* The answer of Authorize to a request it does not let through: 500 for an
\* evaluator error, 403 with the decision's reason for a deny.
Refusal(result) ==
    IF result.err
    THEN [code |-> 500, message |-> "authorization check failed"]
    ELSE [code |-> 403, message |-> "access denied: " \o result.Reason]

\* Authorize.  Evaluate reads opa.policy without synchronisation: the read
\* returns one of the values observable to the request's goroutine.
Authorize(s) ==
    /\ At(s, "Authorize")
    /\ \E compiled \in observable :
         LET r == Entered(req[s], "Authorize")
             tenant == GetTenantID(r.ctx)
             result == Evaluate(compiled, PolicyInput(tenant.id, r.method, r.path))
             e == [r EXCEPT !.obtained = Append(@, tenant.id), !.evaluated = TRUE,
                            !.used = compiled, !.inForce = policy]
         IN  req' = [req EXCEPT ![s] =
                       IF ~tenant.ok THEN Reject(r, 401, "missing tenant context")
                       ELSE IF result.err \/ ~result.Allowed
                       THEN Reject(e, Refusal(result).code, Refusal(result).message)
                       ELSE CallNext([e EXCEPT !.ctx =
                                        ContextSet(@, "policy_result", result)])]
    /\ UNCHANGED <<cache, policy, calls, excused, stored, started, updateErr, observable, last, svc, cb, answer, retry, worker, lb, mig>>

\* rdb.Set(key, value): the map with key bound to value.
RedisSet(m, key, value) ==
    [k \in DOMAIN m \cup {key} |-> IF k = key THEN value ELSE m[k]]

\* The map without key (the key's TTL ran out).
RedisDel(m, key) == [k \in DOMAIN m \ {key} |-> m[k]]

\* The (tenant, Idempotency-Key) pair of a request.
PairOf(r) == <<GetTenantID(r.ctx).id, r.key>>

Range(f) == {f[i] : i \in DOMAIN f}

Count(p) == IF p \in DOMAIN calls THEN calls[p] ELSE 0

\* The status of the last handler response for pair p, 0 when there was none.
LastStatus(p) == IF p \in DOMAIN last THEN last[p] ELSE 0

\* Mutant: a request without the header is let through.
MissingKeyIgnored(key) == FALSE

\* idempotencyKey == "": the header is absent or empty.
MissingKey(key) == key = <<>>

\* Mutant: a Redis error on the lookup fails the request.
DegradedRejects(q) == Reject([q EXCEPT !.lookup = "err"], 500, "idempotency check failed")

\* A Redis error on the lookup is logged; the request goes on as on a miss.
Degraded(q) == CallNext([q EXCEPT !.lookup = "err", !.capture = TRUE])

\* Mutant: a failed SET fails the request.
StoreFailedRejects(r) ==
    [r EXCEPT !.pc = "done", !.storeErr = TRUE, !.cacheOps = @ + 1,
              !.resp = HTTPError(500, "failed to store idempotency record")]

\* A failed SET is logged; Idempotent returns nil.
StoreFailed(r) == [r EXCEPT !.pc = "done", !.storeErr = TRUE, !.cacheOps = @ + 1]

\* Idempotent, up to the call of next(c): method filter, header check, tenant,
\* the GET on Redis and the replay of a hit.
IdempotentLookup(s) ==
    /\ At(s, "Idempotent")
    /\ LET r == Entered(req[s], "Idempotent")
           tenant == GetTenantID(r.ctx)
           key == CacheKey(tenant.id, r.key)
           q == [r EXCEPT !.obtained = Append(@, tenant.id), !.cacheOps = @ + 1,
                          !.prior = LastStatus(PairOf(r))]
       IN  IF ~StateChanging(r.method)
           THEN req' = [req EXCEPT ![s] = CallNext(r)] /\ UNCHANGED excused
           ELSE IF MissingKey(r.key)
           THEN /\ req' = [req EXCEPT ![s] = Reject(r, 400, "missing Idempotency-Key header")]
                /\ UNCHANGED excused
           ELSE IF ~tenant.ok
           THEN req' = [req EXCEPT ![s] = Reject(r, 401, "missing tenant")] /\ UNCHANGED excused
           ELSE \/ /\ Lookup(cache, key) = "hit"
                   /\ req' = [req EXCEPT ![s] =
                                [q EXCEPT !.pc = "done", !.lookup = "hit",
                                          !.resp = Replay(@, UnmarshalRecord(cache[key]))]]
                   /\ UNCHANGED excused
                \/ /\ Lookup(cache, key) = "corrupt"
                   /\ req' = [req EXCEPT ![s] =
                                Reject([q EXCEPT !.lookup = "corrupt"], 500,
                                       "corrupted idempotency record")]
                   /\ UNCHANGED excused
                \/ /\ Lookup(cache, key) = "miss"
                   /\ req' = [req EXCEPT ![s] =
                                CallNext([q EXCEPT !.lookup = "miss", !.capture = TRUE])]
                   /\ UNCHANGED excused
                \/ \* Redis does not answer: degraded mode, treated as a miss
                   /\ req' = [req EXCEPT ![s] = Degraded(q)]
                   /\ excused' = excused \cup {PairOf(r)}
    /\ UNCHANGED <<cache, policy, calls, stored, started, updateErr, observable, last, svc, cb, answer, retry, worker, lb, mig>>

\* The route's handler runs and writes its response (through the recorder when
\* Idempotent installed one).
Handler(s, responses) ==
    /\ req[s].pc = "handler"
    /\ LET r == req[s]
           tenant == GetTenantID(r.ctx)
           counted == StateChanging(r.method) /\ r.key # <<>> /\ tenant.ok
       IN  /\ \E h \in IF tenant.ok THEN responses
                       ELSE {HTTPError(401, "unauthorized")} :
                /\ req' = [req EXCEPT ![s] =
                          [r EXCEPT !.pc = IF r.capture THEN "post" ELSE "done",
                                    !.stages = Append(@, "handler"),
                                    !.obtained = IF tenant.ok THEN Append(@, tenant.id)
                                                 ELSE @,
                                    !.recorder = IF r.capture
                                                 THEN [status |-> h.status,
                                                       headers |-> h.headers,
                                                       body |-> h.body]
                                                 ELSE @,
                                    !.resp = Sent(h)]]
                /\ last' = IF counted THEN RedisSet(last, PairOf(r), Sent(h).status)
                            ELSE last
           /\ calls' = IF counted
                       THEN RedisSet(calls, PairOf(r), Count(PairOf(r)) + 1)
                       ELSE calls
    /\ UNCHANGED <<cache, policy, excused, stored, started, updateErr, observable, svc, cb, answer, retry, worker, lb, mig>>

\* Mutant: the record is written only when the key holds none (SET NX).
WriteRecordIfAbsent(m, key, value) == IF key \in DOMAIN m THEN m ELSE RedisSet(m, key, value)

\* i.rdb.Set(ctx, key, recJSON, i.ttl): an unconditional SET.
WriteRecord(m, key, value) == RedisSet(m, key, value)

\* ghost: the SETs that wrote the value now under key.
Writes(key) == IF key \in DOMAIN stored THEN stored[key].writes ELSE 0

\* Idempotent, after next(c) returned: the captured response is stored unless
\* it is a 5xx; a failed SET is only logged.
IdempotentStore(s) ==
    /\ req[s].pc = "post"
    /\ LET r == req[s]
           rec == RecordOf(r.recorder)
           key == CacheKey(GetTenantID(r.ctx).id, r.key)
       IN  IF Storable(rec.StatusCode)
           THEN \/ /\ req' = [req EXCEPT ![s] =
                                [r EXCEPT !.pc = "done", !.cacheOps = @ + 1,
                                          !.wrote = Writes(key) + 1]]
                   /\ cache' = WriteRecord(cache, key, MarshalRecord(rec))
                   /\ stored' = RedisSet(stored, key,
                                         [tenant |-> GetTenantID(r.ctx).id,
                                          key |-> r.key, resp |-> r.resp,
                                          writes |-> Writes(key) + 1])
                   /\ UNCHANGED excused
                \/ \* Redis does not answer
                   /\ req' = [req EXCEPT ![s] = StoreFailed(r)]
                   /\ excused' = excused \cup {PairOf(r)}
                   /\ UNCHANGED <<cache, stored>>
           ELSE /\ req' = [req EXCEPT ![s] = [r EXCEPT !.pc = "done"]]
                /\ excused' = excused \cup {PairOf(r)}
                /\ UNCHANGED <<cache, stored>>
    /\ UNCHANGED <<policy, calls, started, updateErr, observable, last, svc, cb, answer, retry, worker, lb, mig>>

\* The response has been sent; the slot is free again.
\* The caller disconnects while the request is in the middleware chain:
\* net/http cancels c.Request().Context().  No middleware reads that context;
\* the cache calls and the policy evaluation run on context.Background().
Disconnect(s) ==
    /\ req[s].pc = "mw"
    /\ ~req[s].cancelled
    /\ req' = [req EXCEPT ![s] = [@ EXCEPT !.cancelled = TRUE,
                                           !.cancelStages = Len(req[s].stages)]]
    /\ UNCHANGED <<cache, policy, calls, excused, stored, started, updateErr, observable, last, svc, cb, answer, retry, worker, lb, mig>>

\* OPAClient.Evaluate called with an input built as the middleware builds it.
EvaluateCall(inputs) ==
    /\ \E input \in inputs, compiled \in observable :
         answer' = [called |-> TRUE, input |-> input, result |-> Evaluate(compiled, input)]
    /\ UNCHANGED <<req, cache, policy, calls, excused, stored, started, updateErr, observable,
                   last, svc, cb, retry, worker, lb, mig>>

Finish(s) ==
    /\ req[s].pc = "done"
    /\ req' = [req EXCEPT ![s] = Idle]
    /\ UNCHANGED <<cache, policy, calls, excused, stored, started, updateErr, observable, last, svc, cb, answer, retry, worker, lb, mig>>

\* The TTL of a stored value runs out.
Expire(key) ==
    /\ key \in DOMAIN cache
    /\ cache' = RedisDel(cache, key)
    /\ stored' = RedisDel(stored, key)
    /\ excused' = excused \cup
                    {p \in TenantIds \X ClientKeys : CacheKey(p[1], p[2]) = key}
    /\ UNCHANGED <<req, policy, calls, started, updateErr, observable, last, svc, cb, answer, retry, worker, lb, mig>>

\* Mutant: the pointer is replaced whether or not the source compiled.
InstalledUnchecked(current, prepared) == prepared.query

\* The compiled policy in force after UpdatePolicy: the new one only when the
\* source compiled.
Installed(current, prepared) == IF prepared.err THEN current ELSE prepared.query

\* OPAClient.UpdatePolicy: the pointer is replaced only when the source
\* compiles.  The assignment opa.policy = &newPolicy is a plain write: until
\* it has reached the other goroutines, their reads may still return the
\* earlier value.  Updates are spaced: one is issued once the previous write
\* has reached every goroutine.
UpdatePolicy(source) ==
    /\ observable = {policy}
    /\ LET prepared == PrepareForEval(source)
       IN  /\ updateErr' = prepared.err
           /\ policy' = Installed(policy, prepared)
           /\ observable' = observable \cup {Installed(policy, prepared)}
    /\ UNCHANGED <<req, cache, calls, excused, stored, started, last, svc, cb, answer, retry, worker, lb, mig>>

\* The last write of opa.policy has reached every goroutine.
Publish ==
    /\ observable # {policy}
    /\ observable' = {policy}
    /\ UNCHANGED <<req, cache, policy, calls, excused, stored, started, updateErr, last, svc, cb, answer, retry, worker, lb, mig>>

\* The server as main wires it: nothing calls UpdatePolicy, the policy in
\* force stays the default one.
Next ==
    \/ \E s \in Slots : Start(s, Requests, MaxRequests)
    \/ \E s \in Slots : TenantExtraction(s)
    \/ \E s \in Slots : Authorize(s)
    \/ \E s \in Slots : IdempotentLookup(s)
    \/ \E s \in Slots : Handler(s, HandlerResponses)
    \/ \E s \in Slots : IdempotentStore(s)
    \/ \E s \in Slots : Finish(s)
    \/ \E key \in DOMAIN cache : Expire(key)

Spec == Init /\ [][Next]_vars

\* The policy client with its update operation, serving one tenant.
NextPolicy ==
    \/ \E s \in Slots : Start(s, TenantRequests, MaxRequests)
    \/ \E s \in Slots : TenantExtraction(s)
    \/ \E s \in Slots : Authorize(s)
    \/ \E s \in Slots : IdempotentLookup(s)
    \/ \E s \in Slots : Handler(s, {Response(201, ContentJSON, <<"[", "1", "]">>)})
    \/ \E s \in Slots : IdempotentStore(s)
    \/ \E s \in Slots : Finish(s)
    \/ \E source \in PolicySources : UpdatePolicy(source)
    \/ Publish

SpecPolicy == Init /\ [][NextPolicy]_vars

\* Create-payment requests of pairs that share a cache key and of one that
\* does not.
CacheRequests ==
    { Request(Verified(ValidCN(<<"a">>)), "POST", PaymentsPath, <<"c">>),
      Request(Verified(ValidCN(<<"a">>)), "POST", PaymentsPath, <<"b", ":", "c">>),
      Request(Verified(ValidCN(<<"a", ":", "b">>)), "POST", PaymentsPath, <<"c">>) }

\* Handler responses: a JSON body, a body that is no JSON, a server error.
CacheResponses ==
    { Response(201, ContentJSON, <<"[", "1", "]">>),
      Response(200, NoHeaders, <<"x">>),
      Response(500, ContentJSON, <<"[", "]", " ">>) }

\* The idempotency cache over longer sequences of create-payment requests.
NextCache ==
    \/ \E s \in Slots : Start(s, CacheRequests, MaxCacheRequests)
    \/ \E s \in Slots : TenantExtraction(s)
    \/ \E s \in Slots : Authorize(s)
    \/ \E s \in Slots : IdempotentLookup(s)
    \/ \E s \in Slots : Handler(s, CacheResponses)
    \/ \E s \in Slots : IdempotentStore(s)
    \/ \E s \in Slots : Finish(s)
    \/ \E key \in DOMAIN cache : Expire(key)

SpecCache == Init /\ [][NextCache]_vars

\* One call of the payment service, made by the handler of a request or by
\* the worker; the calls that change a payment's status come one at a time.
Call(op, tenantID, paymentID, outcome) ==
    /\ svc' = [payments |-> outcome.payments,
               call |-> [op |-> op, tenantID |-> tenantID, id |-> paymentID,
                         returned |-> outcome.returned]]
    /\ UNCHANGED <<gateway, cb, retry, worker, lb, mig>>

CallCreatePayment ==
    /\ Len(svc.payments) < MaxPayments
    /\ \E tenantID \in Callers \cup {<<>>}, request \in CreatePaymentRequests :
         Call("CreatePayment", tenantID, 0, CreatePayment(svc.payments, tenantID, request))

CallGetPayment ==
    \E tenantID \in Callers, id \in PaymentIDs :
        Call("GetPayment", tenantID, id, GetPayment(svc.payments, tenantID, id))

CallUpdatePayment ==
    \E tenantID \in Callers, id \in PaymentIDs, request \in UpdatePaymentRequests :
        Call("UpdatePayment", tenantID, id,
             UpdatePayment(svc.payments, tenantID, id, request))

CallListPayments ==
    \E tenantID \in Callers, filter \in PaymentFilters :
        \E outcome \in ListPayments(svc.payments, tenantID, filter) :
            Call("ListPayments", tenantID, 0, outcome)

CallProcessPayment ==
    \E tenantID \in Callers, id \in PaymentIDs :
        Call("ProcessPayment", tenantID, id, ProcessPayment(svc.payments, tenantID, id))

CallCancelPayment ==
    \E tenantID \in Callers, id \in PaymentIDs :
        Call("CancelPayment", tenantID, id, CancelPayment(svc.payments, tenantID, id))

CallGetPaymentStats ==
    \E tenantID \in Callers :
        Call("GetPaymentStats", tenantID, 0, GetPaymentStats(svc.payments, tenantID))

NextService ==
    \/ CallCreatePayment
    \/ CallGetPayment
    \/ CallUpdatePayment
    \/ CallListPayments
    \/ CallProcessPayment
    \/ CallCancelPayment
    \/ CallGetPaymentStats

SpecService == Init /\ [][NextService]_vars

\* A step of the breaker's side of the program.
BreakerStep(next) == cb' = next /\ UNCHANGED <<gateway, svc, retry, worker, lb, mig>>

\* time.Now() advances.
Tick ==
    /\ cb.now < MaxClock
    /\ BreakerStep([cb EXCEPT !.now = @ + 1])

\* A goroutine calls one of the entry points.
Begin(t) ==
    /\ cb.task[t].pc = "idle"
    /\ cb.begun < MaxBreakerCalls
    /\ \E op \in BreakerOps :
         BreakerStep([cb EXCEPT !.begun = @ + 1,
                                !.task[t] = [NoCall EXCEPT !.pc = "allow", !.op = op]])

\* if !cb.allowRequest() { return ErrCircuitBreakerOpen }
AllowRequest(t) ==
    /\ cb.task[t].pc = "allow"
    /\ BreakerStep(
         IF allowRequest(cb.breaker, cb.now)
         THEN [cb EXCEPT !.task[t] = [@ EXCEPT !.pc = "fn", !.admitted = TRUE,
                                                !.saw = cb.breaker.state]]
         ELSE [cb EXCEPT !.task[t] = [@ EXCEPT !.pc = "done",
                                                !.saw = cb.breaker.state,
                                                !.returned = [value |-> 0,
                                                              err |-> ErrCircuitBreakerOpen]]])

\* fn runs, outside the mutex: inside Execute, or once more after Execute has
\* returned nil to ExecuteWithResult.
Invoke(t) ==
    /\ cb.task[t].pc \in {"fn", "again"}
    /\ \E r \in FnResults :
         BreakerStep(
           IF cb.task[t].pc = "fn"
           THEN [cb EXCEPT !.task[t] = [@ EXCEPT !.pc = "record", !.invoked = @ + 1,
                                                  !.first = r]]
           ELSE [cb EXCEPT !.task[t] = [@ EXCEPT !.pc = "done", !.invoked = @ + 1,
                                                  !.returned = r]])

\* cb.recordResult(err == nil) and the return of the entry point.  Execute
\* returns the error; ExecuteWithContextAndResult the result and the error;
\* ExecuteWithResult returns the zero value and the error, or goes on to
\* call fn again when Execute returned nil.
RecordResult(t) ==
    /\ cb.task[t].pc = "record"
    /\ LET call == cb.task[t]
           recorded == [call EXCEPT !.recorded = @ + 1]
           after == recordResult(cb.breaker, call.first.err = "", cb.now)
       IN  BreakerStep(
             [cb EXCEPT
                !.breaker = after,
                !.task[t] =
                   IF call.op = "ExecuteWithContextAndResult"
                   THEN [recorded EXCEPT !.pc = "done", !.returned = call.first]
                   ELSE IF call.op = "Execute" \/ call.first.err # ""
                   THEN [recorded EXCEPT !.pc = "done",
                                         !.returned = [value |-> 0, err |-> call.first.err]]
                   ELSE [recorded EXCEPT !.pc = "again"]])

\* The entry point has returned to its caller.
Return(t) ==
    /\ cb.task[t].pc = "done"
    /\ BreakerStep([cb EXCEPT !.task[t] = NoCall])

\* CircuitBreaker.Reset
Reset ==
    BreakerStep([cb EXCEPT !.breaker =
                   [setState(cb.breaker, "Closed") EXCEPT !.failures = 0,
                                                          !.lastFailTime = ZeroTime]])

NextBreaker ==
    \/ Tick
    \/ \E t \in BreakerTasks : Begin(t)
    \/ \E t \in BreakerTasks : AllowRequest(t)
    \/ \E t \in BreakerTasks : Invoke(t)
    \/ \E t \in BreakerTasks : RecordResult(t)
    \/ \E t \in BreakerTasks : Return(t)
    \/ Reset

SpecBreaker == Init /\ [][NextBreaker]_vars

\* A step of the payment worker or of its delayed job processor.
WorkerStep(next) == worker' = next /\ UNCHANGED <<gateway, svc, cb, retry, lb, mig>>

\* A Redis command of the worker ends with reply; errors are bounded.
Replied(reply) == reply = "ok" \/ worker.failures < MaxRedisFailures

Failed(reply) == IF reply = "error" THEN worker.failures + 1 ELSE worker.failures

\* time.Now() advances by one retryDelay.
WorkerTick ==
    /\ worker.clock < MaxWorkerClock
    /\ WorkerStep([worker EXCEPT !.clock = @ + 1])

\* EnqueueJob: a new ID, Retries 0, pushed on the main queue.
EnqueueJob ==
    /\ worker.nextId <= MaxJobs
    /\ \E reply \in RedisReplies :
        /\ Replied(reply)
        /\ LET job == PaymentJob(worker.nextId, 0, worker.clock)
           IN  WorkerStep([worker EXCEPT
                   !.nextId = @ + 1,
                   !.failures = Failed(reply),
                   !.queue = IF reply = "ok" THEN LPush(@, job) ELSE @])

\* processJobs: BLPOP a job and run processJob on it. A failed job whose
\* Retries is below maxRetries enters retryJob, which increments Retries, sets
\* CreatedAt and sleeps; any other job is done or given up.
ProcessJobs ==
    /\ worker.pc = "poll"
    /\ worker.queue # <<>>
    /\ \E ok \in JobSucceeds :
        LET job == Head(worker.queue)
            ran == [worker EXCEPT !.queue = Tail(@),
                                  !.executed = Counted(@, job.id)]
        IN  IF ok THEN WorkerStep(ran)
            ELSE IF job.retries < maxRetries
            THEN WorkerStep([ran EXCEPT
                     !.pc = "sleep",
                     !.held = PaymentJob(job.id, job.retries + 1, worker.clock),
                     !.wakeAt = worker.clock + retryDelay])
            ELSE WorkerStep([ran EXCEPT !.givenUp = @ \cup {job.id}])

\* retryJob after its sleep: ZADD the job to the delayed set, due one
\* retryDelay from now. When ZADD fails the error is returned and the job is
\* in neither key.
RetryJob ==
    /\ worker.pc = "sleep"
    /\ worker.clock >= worker.wakeAt
    /\ \E reply \in RedisReplies :
        /\ Replied(reply)
        /\ WorkerStep([worker EXCEPT
               !.pc = "poll", !.held = NoJob, !.wakeAt = 0,
               !.failures = Failed(reply),
               !.delayed = IF reply = "ok"
                           THEN ZAdd(@, worker.held, worker.clock + retryDelay)
                           ELSE @])

\* ProcessDelayedJobs on a tick of the 30 s ticker: read the members that are
\* due.
ProcessDelayedJobs ==
    /\ worker.jobs = <<>>
    /\ worker.clock - worker.lastRound >= delayedInterval
    /\ \E reply \in RedisReplies :
        /\ Replied(reply)
        /\ WorkerStep([worker EXCEPT
               !.lastRound = worker.clock,
               !.failures = Failed(reply),
               !.jobs = IF reply = "ok"
                        THEN ZRangeByScore(worker.delayed, worker.clock)
                        ELSE <<>>])

\* One round of the loop of ProcessDelayedJobs: LPUSH the member on the main
\* queue, and on success ZREM it from the delayed set. A failed LPUSH skips
\* the member, a failed ZREM is logged.
MoveDelayedJob ==
    /\ worker.jobs # <<>>
    /\ \E push, rem \in RedisReplies :
        LET job == Head(worker.jobs)
            rest == [worker EXCEPT !.jobs = Tail(@)]
        IN  IF push = "error"
            THEN /\ Replied(push)
                 /\ WorkerStep([rest EXCEPT !.failures = Failed(push)])
            ELSE /\ Replied(rem)
                 /\ WorkerStep([rest EXCEPT
                        !.failures = Failed(rem),
                        !.queue = LPush(@, job),
                        !.moved = Counted(@, job),
                        !.delayed = IF rem = "ok" THEN ZRem(@, job) ELSE @])

NextWorker ==
    \/ WorkerTick
    \/ EnqueueJob
    \/ ProcessJobs
    \/ RetryJob
    \/ ProcessDelayedJobs
    \/ MoveDelayedJob

SpecWorker == Init /\ [][NextWorker]_vars

\* A step of the load balancer, its health checker or a proxied request.
BalancerStep(next) == lb' = next /\ UNCHANGED <<gateway, svc, cb, retry, worker, mig>>

\* NewLoadBalancer: one healthy server of weight 1 per URL, and a health
\* checker that is given the slice lb.servers.
NewLoadBalancer ==
    /\ ~lb.up
    /\ \E servers \in ServerLists, strategy \in LoadBalancingStrategies :
        BalancerStep([lb EXCEPT
            !.up = TRUE, !.strategy = strategy,
            !.srv = [i \in 1..Len(servers) |-> Server(servers[i], 1)],
            !.servers = [i \in 1..Len(servers) |-> i],
            !.array = [i \in 1..Len(servers) |-> i]])

\* lb.mu is free for Lock: no call is inside GetNextServer.
Unlocked == \A t \in ProxyTasks : lb.reqs[t].pc # "selected"

\* AddServer: append a healthy server to lb.servers. append writes into the
\* backing array when it has room and moves lb.servers to a new array when it
\* has none.
AddServer ==
    /\ lb.up /\ Unlocked
    /\ lb.changes < MaxServerChanges
    /\ \E url \in ServerURLs, weight \in Weights :
        LET p == Len(lb.srv) + 1
            len == Len(lb.servers)
            inPlace == lb.shared /\ len < Len(lb.array)
        IN  BalancerStep([lb EXCEPT
                !.changes = @ + 1,
                !.srv = Append(@, Server(url, weight)),
                !.servers = Append(@, p),
                !.array = IF inPlace THEN [@ EXCEPT ![len + 1] = p] ELSE @,
                !.shared = inPlace])

\* RemoveServer: cut the first server with the URL out of lb.servers, in
\* place.
RemoveServer ==
    /\ lb.up /\ Unlocked
    /\ lb.changes < MaxServerChanges
    /\ \E url \in ServerURLs :
        LET i == IndexOfURL(lb, url)
        IN  IF i = 0 THEN BalancerStep([lb EXCEPT !.changes = @ + 1])
            ELSE BalancerStep([lb EXCEPT
                     !.changes = @ + 1,
                     !.servers = RemoveAt(@, i),
                     !.array = IF lb.shared THEN ShiftDown(@, Len(lb.servers), i)
                               ELSE @])

\* checkServer, started by checkAllServers for an element of
\* healthChecker.servers: the probe's result becomes the server's Healthy.
CheckServer ==
    /\ lb.up
    /\ \E k \in 1..Len(lb.array), ok \in BOOLEAN :
        /\ lb.srv[lb.array[k]].healthy # ok
        /\ BalancerStep([lb EXCEPT !.srv[lb.array[k]].healthy = ok])

\* ProxyHandler's call of GetNextServer, under RLock: read the Healthy flags
\* and currentIndex and pick.
ProxyHandler(t) ==
    /\ lb.up
    /\ lb.reqs[t].pc = "idle"
    /\ lb.begun < MaxProxyRequests
    /\ LET sel == GetNextServer(lb)
       IN  BalancerStep([lb EXCEPT
               !.begun = @ + 1,
               !.reqs[t] = [NoProxy EXCEPT !.pc = "selected", !.server = sel.server,
                                           !.idx = lb.currentIndex, !.incr = sel.incr]])

\* GetNextServer returns: currentIndex++ of the strategy is written, the lock
\* released; without a server the handler answers 503.
ReturnServer(t) ==
    /\ lb.reqs[t].pc = "selected"
    /\ LET r == lb.reqs[t]
           written == [lb EXCEPT !.currentIndex = IF r.incr THEN r.idx + 1 ELSE @]
       IN  IF r.server = 0
           THEN BalancerStep([written EXCEPT !.reqs[t].pc = "done",
                                             !.reqs[t].status = 503])
           ELSE BalancerStep([written EXCEPT !.reqs[t].pc = "inc"])

\* server.Connections++ reads the counter ...
IncrementRead(t) ==
    /\ lb.reqs[t].pc = "inc"
    /\ BalancerStep([lb EXCEPT !.reqs[t].pc = "incw",
                               !.reqs[t].c = lb.srv[lb.reqs[t].server].connections])

\* ... and writes it; the request is proxied from here.
IncrementWrite(t) ==
    /\ lb.reqs[t].pc = "incw"
    /\ BalancerStep([lb EXCEPT !.reqs[t].pc = "serve",
                               !.reqs[t].proxied = TRUE,
                               !.srv[lb.reqs[t].server].connections = lb.reqs[t].c + 1])

\* proxy.ServeHTTP returns with the backend's answer or the error handler's
\* 502, and the deferred server.Connections-- reads the counter ...
ServeHTTP(t) ==
    /\ lb.reqs[t].pc = "serve"
    /\ \E status \in {200, 502} :
        BalancerStep([lb EXCEPT !.reqs[t].pc = "decw",
                               !.reqs[t].status = status,
                               !.reqs[t].c = lb.srv[lb.reqs[t].server].connections])

\* ... and writes it.
DecrementWrite(t) ==
    /\ lb.reqs[t].pc = "decw"
    /\ BalancerStep([lb EXCEPT !.reqs[t].pc = "done",
                               !.srv[lb.reqs[t].server].connections = lb.reqs[t].c - 1])

\* The handler has returned.
ProxyReturn(t) ==
    /\ lb.reqs[t].pc = "done"
    /\ BalancerStep([lb EXCEPT !.reqs[t] = NoProxy])

\* The server set changes and is health-checked while requests arrive one
\* after the other.
NextBalancer ==
    \/ NewLoadBalancer
    \/ AddServer
    \/ RemoveServer
    \/ CheckServer
    \/ ProxyHandler(1)
    \/ ReturnServer(1)
    \/ IncrementRead(1)
    \/ IncrementWrite(1)
    \/ ServeHTTP(1)
    \/ DecrementWrite(1)
    \/ ProxyReturn(1)

SpecBalancer == Init /\ [][NextBalancer]_vars

\* Concurrent requests over the server set NewLoadBalancer was given.
NextConnections ==
    \/ NewLoadBalancer
    \/ CheckServer
    \/ \E t \in ProxyTasks : ProxyHandler(t)
    \/ \E t \in ProxyTasks : ReturnServer(t)
    \/ \E t \in ProxyTasks : IncrementRead(t)
    \/ \E t \in ProxyTasks : IncrementWrite(t)
    \/ \E t \in ProxyTasks : ServeHTTP(t)
    \/ \E t \in ProxyTasks : DecrementWrite(t)
    \/ \E t \in ProxyTasks : ProxyReturn(t)

SpecConnections == Init /\ [][NextConnections]_vars

\* A step of the migrator.
MigratorStep(next) == mig' = next /\ UNCHANGED <<gateway, svc, cb, retry, worker, lb>>

\* A migration file is written to the directory between two runs.
WriteMigration ==
    /\ mig.pc = "idle"
    /\ \E file \in MigrationFiles \ mig.files :
        MigratorStep([mig EXCEPT !.files = @ \cup {file}])

\* Up until its loop: Init, LoadMigrations and GetAppliedMigrations, each of
\* which may fail.
Up ==
    /\ mig.pc = "idle"
    /\ mig.calls < MaxUpCalls
    /\ \E ok \in BOOLEAN, list \in LoadMigrations(mig.files) :
        LET run == [mig EXCEPT !.calls = @ + 1, !.before = mig.db]
        IN  IF ok
            THEN MigratorStep([run EXCEPT !.pc = "loop", !.list = list, !.i = 1,
                                          !.applied = mig.db.versions])
            ELSE MigratorStep([run EXCEPT !.pc = "done",
                                          !.returned = "failed to initialize migrations"])

\* One round of Up's loop: skip an applied version, or run the migration's
\* SQL and record its version in one transaction and go on when it commits.
ApplyMigration ==
    /\ mig.pc = "loop"
    /\ mig.i <= Len(mig.list)
    /\ LET migration == mig.list[mig.i]
       IN  IF IsApplied(mig.applied, migration.version)
           THEN MigratorStep([mig EXCEPT !.i = @ + 1])
           ELSE \E outcome \in TxOutcomes :
                LET result == TxResult(mig.db, migration, outcome)
                    tried == [mig EXCEPT
                                 !.db = Transaction(@, migration, result),
                                 !.attempted = mig.db,
                                 !.ran = IF result = "begin" THEN @
                                         ELSE Append(@, migration)]
                IN  IF result = "ok"
                    THEN MigratorStep([tried EXCEPT !.i = @ + 1,
                                                    !.committed = Append(@, migration)])
                    ELSE MigratorStep([tried EXCEPT
                             !.pc = "done", !.failed = mig.i,
                             !.returned = "failed to " \o result \o " migration"])

\* Up after its loop.
UpDone ==
    /\ mig.pc = "loop"
    /\ mig.i > Len(mig.list)
    /\ MigratorStep([mig EXCEPT !.pc = "done", !.returned = ""])

\* Up has returned.
UpReturn ==
    /\ mig.pc = "done"
    /\ MigratorStep([NewMigrator EXCEPT !.files = mig.files, !.db = mig.db,
                                        !.calls = mig.calls])

NextMigrator ==
    \/ WriteMigration
    \/ Up
    \/ ApplyMigration
    \/ UpDone
    \/ UpReturn

SpecMigrator == Init /\ [][NextMigrator]_vars

\* A step of a call of RetryWithContext.
RetryStep(next) == retry' = next /\ UNCHANGED <<gateway, svc, cb, worker, lb, mig>>

\* RetryWithContext is called: attempt := 1.
RetryWithContext ==
    /\ retry.pc = "idle"
    /\ retry.begun < MaxRetryCalls
    /\ \E config \in RetryConfigs :
         RetryStep([NoRetry EXCEPT !.pc = "loop", !.config = config, !.attempt = 1,
                                   !.begun = retry.begun + 1])

\* The caller cancels the context, or its deadline passes.
CancelContext ==
    /\ retry.pc \in {"loop", "fn", "wait"}
    /\ ~retry.ctxDone
    /\ RetryStep([retry EXCEPT !.ctxDone = TRUE])

\* The loop condition and the first select: lines 41-46, and line 72 when
\* the loop is left.
RetryLoop ==
    /\ retry.pc = "loop"
    /\ RetryStep(
         IF retry.attempt > retry.config.MaxAttempts
         THEN [retry EXCEPT !.pc = "done", !.returned = MaxAttemptsReached(retry.lastErr)]
         ELSE IF retry.ctxDone
         THEN [retry EXCEPT !.pc = "done", !.returned = ContextCanceled]
         ELSE [retry EXCEPT !.pc = "fn"])

\* err := fn(ctx) and what follows it up to the second select: lines 48-62.
RetryAttempt ==
    /\ retry.pc = "fn"
    /\ \E err \in AttemptErrors :
         LET tried == [retry EXCEPT !.errs = Append(@, err)]
             failed == [tried EXCEPT !.lastErr = err]
         IN  RetryStep(
               IF err = "" THEN [tried EXCEPT !.pc = "done", !.returned = ""]
               ELSE IF ~Retryable(retry.config, err)
               THEN [failed EXCEPT !.pc = "done", !.returned = err]
               ELSE IF retry.attempt < retry.config.MaxAttempts
               THEN [failed EXCEPT !.pc = "wait",
                                   !.delay = calculateDelay(retry.attempt - 1, retry.config)]
               ELSE [failed EXCEPT !.pc = "loop", !.attempt = @ + 1])

\* The second select, lines 63-68: the context is done, or the delay has
\* passed; with both ready Go takes either.
RetryWait ==
    /\ retry.pc = "wait"
    /\ \/ /\ retry.ctxDone
          /\ RetryStep([retry EXCEPT !.pc = "done", !.returned = ContextCanceled])
       \/ RetryStep([retry EXCEPT !.pc = "loop", !.attempt = @ + 1,
                                   !.waits = Append(@, retry.delay)])

\* RetryWithContext has returned.
RetryReturn ==
    /\ retry.pc = "done"
    /\ RetryStep([NoRetry EXCEPT !.begun = retry.begun])

NextRetry ==
    \/ RetryWithContext
    \/ CancelContext
    \/ RetryLoop
    \/ RetryAttempt
    \/ RetryWait
    \/ RetryReturn

SpecRetry == Init /\ [][NextRetry]_vars

\* One create-payment request, sent twice.
RaceRequests == { Request(Verified(ValidCN(<<"a">>)), "POST", PaymentsPath, <<"c">>) }

\* Handler responses: two that are stored, one that is not.
RaceResponses ==
    { Response(201, ContentJSON, <<"[", "1", "]">>),
      Response(200, ContentJSON, <<"1">>),
      Response(500, ContentJSON, <<"[", "]", " ">>) }

\* The server serving two requests at a time: the steps of the two
\* goroutines interleave.
NextRace ==
    \/ \E s \in RaceSlots : Start(s, RaceRequests, MaxRequests)
    \/ \E s \in RaceSlots : TenantExtraction(s)
    \/ \E s \in RaceSlots : Authorize(s)
    \/ \E s \in RaceSlots : IdempotentLookup(s)
    \/ \E s \in RaceSlots : Handler(s, RaceResponses)
    \/ \E s \in RaceSlots : IdempotentStore(s)
    \/ \E s \in RaceSlots : Finish(s)

SpecRace == InitRace /\ [][NextRace]_vars

\* A create-payment request and a list request of one tenant.
CancelRequests ==
    { Request(Verified(ValidCN(<<"a">>)), "POST", PaymentsPath, <<"c">>),
      Request(Verified(ValidCN(<<"a">>)), "GET", PaymentsPath, NoKey) }

\* CreatePayment on a live request context.
CancelResponses ==
    { Response(201, ContentJSON, <<"[", "1", "]">>),
      Response(500, ContentJSON, <<"[", "]", " ">>) }

\* CreatePayment on a cancelled request context: the body does not bind (400)
\* or the repository's query fails on the context (500).
CancelledResponses ==
    { Response(400, ContentJSON, <<"[", "1", "]">>),
      Response(500, ContentJSON, <<"[", "]", " ">>) }

\* The handler reads the request context, the only code that does.
CancelHandler(s) ==
    Handler(s, IF req[s].cancelled THEN CancelledResponses ELSE CancelResponses)

\* The server with callers that may disconnect.
NextCancel ==
    \/ \E s \in Slots : Start(s, CancelRequests, MaxRequests)
    \/ \E s \in Slots : Disconnect(s)
    \/ \E s \in Slots : TenantExtraction(s)
    \/ \E s \in Slots : Authorize(s)
    \/ \E s \in Slots : IdempotentLookup(s)
    \/ \E s \in Slots : CancelHandler(s)
    \/ \E s \in Slots : IdempotentStore(s)
    \/ \E s \in Slots : Finish(s)

SpecCancel == Init /\ [][NextCancel]_vars

\* The routes main registers under /api/v1, with 1 for :id.
RegisteredRoutes ==
    { <<"GET", PaymentsPath>>,
      <<"POST", PaymentsPath>>,
      <<"GET", PaymentsPath \o <<"stats">> >>,
      <<"GET", PaymentsPath \o <<"1">> >>,
      <<"PUT", PaymentsPath \o <<"1">> >>,
      <<"POST", PaymentsPath \o <<"1", "process">> >>,
      <<"POST", PaymentsPath \o <<"1", "cancel">> >>,
      <<"GET", <<"api", "v1", "whoami">> >> }

\* One request of a tenant per registered route.
RouteRequests ==
    { Request(Verified(ValidCN(<<"a">>)), route[1], route[2], <<"c">>) :
        route \in RegisteredRoutes }

\* Every method on every path of a route, on /health and on an unknown path,
\* for a tenant and for no tenant.
RouteInputs ==
    { PolicyInput(t, m, path) :
        t \in {<<"a">>, <<>>},
        m \in Methods \cup {"DELETE"},
        path \in {route[2] : route \in RegisteredRoutes}
                  \cup {<<"health">>, <<"api", "v1", "refunds">>} }

\* The server under the default policy, and the policy client called on
\* every input.
NextRoutes ==
    \/ \E s \in Slots : Start(s, RouteRequests, MaxRouteRequests)
    \/ \E s \in Slots : TenantExtraction(s)
    \/ \E s \in Slots : Authorize(s)
    \/ \E s \in Slots : IdempotentLookup(s)
    \/ \E s \in Slots : Handler(s, {Response(201, ContentJSON, <<"[", "1", "]">>)})
    \/ \E s \in Slots : IdempotentStore(s)
    \/ \E s \in Slots : Finish(s)
    \/ EvaluateCall(RouteInputs)

SpecRoutes == Init /\ [][NextRoutes]_vars

\* The steps of a request that wait for nothing outside the process: every
\* step but the Redis GET and SET, which are issued on context.Background(),
\* a context without a deadline, by a client built from the options of
\* REDIS_URL alone.
LocalStep(s) ==
    \/ TenantExtraction(s)
    \/ Authorize(s)
    \/ IdempotentLookup(s) /\ req'[s].cacheOps = req[s].cacheOps
    \/ Handler(s, CancelResponses)
    \/ IdempotentStore(s) /\ req'[s].cacheOps = req[s].cacheOps
    \/ Finish(s)

\* The server with a cache that may answer, fail or stay silent.
NextStall ==
    \/ \E s \in Slots : Start(s, CancelRequests, MaxRequests)
    \/ \E s \in Slots : TenantExtraction(s)
    \/ \E s \in Slots : Authorize(s)
    \/ \E s \in Slots : IdempotentLookup(s)
    \/ \E s \in Slots : Handler(s, CancelResponses)
    \/ \E s \in Slots : IdempotentStore(s)
    \/ \E s \in Slots : Finish(s)

\* The goroutine of a request is scheduled as long as it can run; nothing in
\* the gateway makes a Redis call return.
SpecStall == Init /\ [][NextStall]_vars /\ \A s \in Slots : WF_vars(LocalStep(s))

----------------------------------------------------------------------------
(* Properties *)

Done(s) == req[s].pc = "done"

\* The connection carries a verified client certificate.
CertVerified(tls) == tls.present /\ Len(tls.peers) > 0 /\ tls.chains > 0

\* cn is tenant-<id>.yourorg.com for the non-empty id of length n.
IsTenantCN(cn, n) ==
    /\ n >= 1
    /\ Len(cn) = Len(TenantPrefix) + n + Len(DomainSuffix)
    /\ cn = TenantPrefix \o SubSeq(cn, Len(TenantPrefix) + 1, Len(TenantPrefix) + n)
              \o DomainSuffix

WellFormedCN(cn) == \E n \in 1..Len(cn) : IsTenantCN(cn, n)

\* The <id> of a well-formed common name.
IdOfCN(cn) == SubSeq(cn, Len(TenantPrefix) + 1, Len(cn) - Len(DomainSuffix))

\* C1 as stated: over every sequence of state-changing requests served one
\* after another, the handler is invoked at most once per (tenant id,
\* Idempotency-Key) pair.
C1_HandlerAtMostOnce == \A p \in DOMAIN calls : calls[p] <= 1

\* C1 amended: the handler is invoked at most once per (tenant id,
\* Idempotency-Key) pair unless a request of the pair met a cache error on its
\* lookup or its store, a handler response for the pair had a status of 500 or
\* above, or the value under the pair's cache key expired.
C1_HandlerAtMostOnceWhileStored ==
    \A p \in DOMAIN calls : p \notin excused => calls[p] <= 1

\* C1 witness: a repeated request of a pair was answered from the cache after
\* the pair's one handler invocation.
C1_Witness ==
    \E s \in Slots :
        /\ Done(s) /\ req[s].lookup = "hit"
        /\ PairOf(req[s]) \notin excused
        /\ Count(PairOf(req[s])) = 1

\* The value under the request's cache key was written by a request of the
\* same tenant with the same Idempotency-Key.
OwnRecord(r) ==
    LET key == CacheKey(GetTenantID(r.ctx).id, r.key)
    IN  /\ key \in DOMAIN stored
        /\ stored[key].tenant = GetTenantID(r.ctx).id
        /\ stored[key].key = r.key

\* C2: a later request with the tenant and key of a stored response below 500
\* receives the status, headers and body of the original response, and the
\* handler is not invoked for it.
C2_ReplayIdentical ==
    \A s \in Slots :
        LET r == req[s]
        IN  (Done(s) /\ r.lookup \in {"hit", "corrupt"} /\ OwnRecord(r))
              => /\ r.resp = stored[CacheKey(GetTenantID(r.ctx).id, r.key)].resp
                 /\ "handler" \notin Range(r.stages)

\* C3: a record stored by a request of one tenant is never replayed to a
\* request of another tenant.
C3_TenantIsolation ==
    \A s \in Slots :
        LET r == req[s]
            key == CacheKey(GetTenantID(r.ctx).id, r.key)
        IN  (Done(s) /\ r.lookup = "hit" /\ key \in DOMAIN stored)
              => stored[key].tenant = GetTenantID(r.ctx).id

StageRank(stage) ==
    CASE stage = "identity" -> 1
      [] stage = "policy" -> 2
      [] stage = "idempotency" -> 3
      [] stage = "handler" -> 4

\* C4: the stages of a request run in the order identity, policy, idempotency,
\* handler, none before all earlier ones have run; a stage that fails ends the
\* request, no later stage and no handler runs after it.
C4_StageOrder ==
    \A s \in Slots :
        LET st == req[s].stages
        IN  /\ \A i, j \in DOMAIN st : i < j => StageRank(st[i]) <= StageRank(st[j])
            /\ \A i \in DOMAIN st : \A k \in 1..(StageRank(st[i]) - 1) :
                   \E j \in 1..(i - 1) : StageRank(st[j]) = k
            /\ req[s].failed # "none"
                 => /\ Done(s)
                    /\ st[Len(st)] = req[s].failed
                    /\ "handler" \notin Range(st)

\* C4 witness: the handler ran after the three stages had passed.
C4_Witness ==
    \E s \in Slots :
        /\ req[s].stages = <<"identity", "identity", "policy", "idempotency", "handler">>
        /\ req[s].failed = "none"

\* C5: a request without a client certificate or without a verified chain is
\* rejected with 401 by the identity resolver; the policy evaluator is not
\* invoked, the cache is neither read nor written, the handler does not run.
C5_UnauthenticatedRejected ==
    \A s \in Slots :
        LET r == req[s]
        IN  (r.pc # "idle" /\ ~CertVerified(r.tls))
              => /\ ~r.evaluated
                 /\ r.cacheOps = 0
                 /\ "handler" \notin Range(r.stages)
                 /\ r.pc \in {"mw", "done"}
                 /\ r.pc = "mw" => r.stages = <<>>
                 /\ Done(s) => (r.resp.status = 401 /\ r.failed = "identity")

\* C5 witness: a request whose certificate has no verified chain was answered 401.
C5_Witness ==
    \E s \in Slots :
        /\ Done(s)
        /\ Len(req[s].tls.peers) > 0 /\ req[s].tls.chains = 0
        /\ req[s].resp.status = 401

\* C6: a verified certificate whose non-empty common name is not
\* tenant-<id>.yourorg.com with a non-empty id is rejected with 403, and no
\* tenant id is written to the request context.
C6_BadPatternForbidden ==
    \A s \in Slots :
        LET r == req[s]
        IN  (r.pc # "idle" /\ CertVerified(r.tls) /\ r.tls.peers[1] # <<>>
               /\ ~WellFormedCN(r.tls.peers[1]))
              => /\ TenantContextKey \notin DOMAIN r.ctx
                 /\ r.pc \in {"mw", "done"}
                 /\ r.pc = "mw" => r.stages = <<>>
                 /\ Done(s) => (r.resp.status = 403 /\ r.failed = "identity")

\* C6 witness: a common name with the prefix but without the suffix was
\* answered 403.
C6_Witness ==
    \E s \in Slots :
        /\ Done(s)
        /\ CertVerified(req[s].tls)
        /\ req[s].tls.peers[1] = TenantPrefix \o <<"a">>
        /\ req[s].resp.status = 403

\* C7: a verified certificate with an empty common name is rejected with 403,
\* not 401.
C7_EmptyCNForbidden ==
    \A s \in Slots :
        (Done(s) /\ CertVerified(req[s].tls) /\ req[s].tls.peers[1] = <<>>)
          => req[s].resp.status = 403

\* C8: for a verified certificate with common name tenant-<id>.yourorg.com,
\* <id> non-empty, the identity resolver puts exactly <id> in the context and
\* the request goes on to the next stage.
C8_TenantIdExact ==
    \A s \in Slots :
        LET r == req[s]
        IN  (r.stages # <<>> /\ CertVerified(r.tls) /\ WellFormedCN(r.tls.peers[1]))
              => /\ TenantContextKey \in DOMAIN r.ctx
                 /\ r.ctx[TenantContextKey] = IdOfCN(r.tls.peers[1])
                 /\ r.failed # "identity"

\* C8 witness: the request of tenant a:b reached the policy stage with a:b in
\* its context.
C8_Witness ==
    \E s \in Slots :
        /\ "policy" \in Range(req[s].stages)
        /\ req[s].tls.peers = << ValidCN(<<"a", ":", "b">>) >>
        /\ GetTenantID(req[s].ctx).id = <<"a", ":", "b">>

\* C9: every tenant identity the authorizer, the idempotency cache or the
\* handler obtains from the context is non-empty and is the id of the verified
\* certificate of the same request; a request starts with no identity in its
\* context.
C9_IdentityFromOwnCertificate ==
    \A s \in Slots :
        LET r == req[s]
        IN  /\ \A i \in DOMAIN r.obtained :
                 /\ r.obtained[i] # <<>>
                 /\ CertVerified(r.tls)
                 /\ WellFormedCN(r.tls.peers[1])
                 /\ r.obtained[i] = IdOfCN(r.tls.peers[1])
            /\ r.stages = <<>> => r.ctx = NoContext

\* C9 witness: authorizer, idempotency cache and handler each obtained the
\* identity of a request served after an earlier one.
C9_Witness ==
    \E s \in Slots :
        /\ Len(req[s].obtained) = 3
        /\ "handler" \in Range(req[s].stages)
        /\ started = 2

\* Inputs of a policy evaluation.
PolicyInputs ==
    { PolicyInput(t, m, path) :
        t \in TenantIds \cup {<<>>},
        m \in Methods \cup {"DELETE"},
        path \in {route[2] : route \in Routes} \cup {<<"health">>, <<"api", "v1", "whoami">>} }

\* C10: under the policy in force, whatever updates preceded, an input that
\* matches no allow rule is denied.
C10_DefaultDeny ==
    \A input \in PolicyInputs :
        ~SomeRuleMatches(policy, input) => ~Evaluate(policy, input).Allowed

\* The result of the query for the request in slot s under the compiled policy
\* its evaluation read.
Outcome(s) ==
    Eval(req[s].used,
         PolicyInput(GetTenantID(req[s].ctx).id, req[s].method, req[s].path))

\* The evaluation gave no boolean: an error, an empty result set, or a value
\* that is neither true nor false.
NoBoolean(out) ==
    out.err \/ out.results = <<>> \/ out.results[1] \notin {"true", "false"}

\* C11: the handler is reached only after an evaluation whose result is the
\* boolean true; an evaluation that gives an error, an empty result set or a
\* value that is no boolean ends the request at the policy stage with a 403
\* or a 500.
C11_FailClosed ==
    \A s \in Slots :
        LET r == req[s]
        IN  /\ "handler" \in Range(r.stages)
                 => (r.evaluated /\ ~Outcome(s).err /\ Outcome(s).results = <<"true">>)
            /\ (r.evaluated /\ NoBoolean(Outcome(s)))
                 => /\ Done(s)
                    /\ r.failed = "policy"
                    /\ r.resp.status \in {403, 500}

\* C11 witness: an evaluation whose result was a string ended in a 403.
C11_Witness ==
    \E s \in Slots :
        /\ Done(s) /\ req[s].evaluated
        /\ ~Outcome(s).err /\ Outcome(s).results = <<"maybe">>
        /\ req[s].resp.status = 403

\* The reason of a deny, from the result set of the query.
ReasonOf(out) ==
    IF out.results = <<>> THEN "no policy decision"
    ELSE IF out.results[1] = "false" THEN "access denied by policy"
    ELSE "invalid policy result"

\* C12: an evaluator error ends the request with 500, a deny computed by the
\* policy ends it with 403 and the decision's reason; in neither case does the
\* idempotency stage or the handler run.
C12_ErrorVersusDeny ==
    \A s \in Slots :
        LET r == req[s]
            out == Outcome(s)
        IN  r.evaluated =>
              /\ out.err
                   => /\ Done(s) /\ r.failed = "policy"
                      /\ r.resp = HTTPError(500, "authorization check failed")
              /\ (~out.err /\ out.results # <<"true">>)
                   => /\ Done(s) /\ r.failed = "policy"
                      /\ r.resp = HTTPError(403, "access denied: " \o ReasonOf(out))
              /\ r.failed = "policy"
                   => /\ "idempotency" \notin Range(r.stages)
                      /\ "handler" \notin Range(r.stages)
                      /\ r.cacheOps = 0

\* C12 witness: an evaluation that ended in an evaluator error was answered 500.
C12_Witness ==
    \E s \in Slots :
        /\ Done(s) /\ req[s].evaluated /\ Outcome(s).err
        /\ req[s].resp.status = 500

\* C13: an UpdatePolicy whose source does not compile returns an error and
\* leaves the compiled policy as it was: every input is decided after it as
\* before it, and the policy in force is never the zero query.
C13_FailedUpdateKeepsPolicy ==
    [][\A source \in PolicySources :
          (UpdatePolicy(source) /\ ~source.valid)
            => /\ updateErr'
               /\ policy' = policy /\ policy' # NoQuery
               /\ observable' = observable
               /\ \A input \in PolicyInputs :
                      Evaluate(policy', input) = Evaluate(policy, input)]_vars

\* C13 witness: a request was evaluated under a replacement policy that a
\* failed update had left in force.
C13_Witness ==
    \E s \in Slots :
        /\ updateErr
        /\ policy # PrepareForEval(defaultPolicy).query
        /\ req[s].evaluated /\ req[s].used = policy

\* C14: an evaluation that starts after UpdatePolicy has returned is decided
\* by the compiled policy that update installed (and every evaluation by one
\* compiled policy as a whole).
C14_AtomicSwap ==
    \A s \in Slots : req[s].evaluated => req[s].used = req[s].inForce

\* The cache key of the request in slot s.
KeyOf(s) == CacheKey(GetTenantID(req[s].ctx).id, req[s].key)

\* The response the handler wrote, as the recorder captured it.
Captured(s) ==
    Sent(Response(req[s].recorder.status, req[s].recorder.headers, req[s].recorder.body))

\* Every record in the cache has a status below 500.
RecordsBelow500 == \A key \in DOMAIN cache : cache[key].status_code < 500

\* C15 as stated: every record in the cache has a status below 500, and a
\* request of a pair whose last handler response was 500 or above invokes the
\* handler again.
C15_ServerErrorsNotStored ==
    /\ RecordsBelow500
    /\ \A s \in Slots :
          (Done(s) /\ req[s].prior >= 500) => "handler" \in Range(req[s].stages)

\* C15 amended: every record in the cache has a status below 500; no SET is
\* issued for a handler response of 500 or above; a request of a pair whose
\* last handler response was 500 or above invokes the handler again unless
\* its lookup finds a value under its cache key.
C15_ServerErrorsNotStoredUnlessFound ==
    /\ RecordsBelow500
    /\ \A s \in Slots :
          LET r == req[s]
          IN  /\ (Done(s) /\ r.prior >= 500)
                   => ("handler" \in Range(r.stages) \/ r.lookup \in {"hit", "corrupt"})
              /\ (Done(s) /\ r.capture /\ Captured(s).status >= 500)
                   => (r.cacheOps = 1 /\ ~r.storeErr)

\* C15 witness: the request after a 500 of its pair missed and ran the
\* handler again.
C15_Witness ==
    \E s \in Slots :
        /\ Done(s) /\ req[s].prior >= 500 /\ req[s].lookup = "miss"
        /\ "handler" \in Range(req[s].stages)

\* C16 as stated: a POST, PUT or PATCH request without an Idempotency-Key is
\* answered 400; the handler is not invoked, the cache neither read nor
\* written.
C16_MissingKeyBadRequest ==
    \A s \in Slots :
        LET r == req[s]
        IN  (Done(s) /\ StateChanging(r.method) /\ r.key = <<>>)
              => /\ r.resp.status = 400
                 /\ "handler" \notin Range(r.stages)
                 /\ r.cacheOps = 0

\* C16 amended: for a POST, PUT or PATCH request without an Idempotency-Key
\* the handler is not invoked and the cache neither read nor written; when the
\* request has passed the identity resolver and the policy authorizer it is
\* answered 400 by the idempotency stage.
C16_MissingKeyBadRequestWhenAdmitted ==
    \A s \in Slots :
        LET r == req[s]
        IN  (r.pc # "idle" /\ StateChanging(r.method) /\ r.key = <<>>)
              => /\ "handler" \notin Range(r.stages)
                 /\ r.cacheOps = 0
                 /\ r.pc \in {"mw", "done"}
                 /\ "idempotency" \in Range(r.stages)
                      => /\ Done(s) /\ r.failed = "idempotency"
                         /\ r.resp = HTTPError(400, "missing Idempotency-Key header")

\* C16 witness: an admitted POST without the header was answered 400.
C16_Witness ==
    \E s \in Slots :
        /\ Done(s) /\ req[s].method = "POST" /\ req[s].key = <<>>
        /\ "policy" \in Range(req[s].stages)
        /\ req[s].resp.status = 400

\* C17: a request whose lookup met a Redis error goes on as on a miss: the
\* handler runs and the client receives what the handler wrote; the request
\* is not failed by any stage.
C17_DegradedMode ==
    \A s \in Slots :
        LET r == req[s]
        IN  r.lookup = "err"
              => /\ r.pc \in {"handler", "post", "done"}
                 /\ r.failed = "none"
                 /\ r.pc # "handler"
                      => ("handler" \in Range(r.stages) /\ r.resp = Captured(s))

\* C17 witness: with Redis down for the lookup and for the store, the client
\* received the handler's 201.
C17_Witness ==
    \E s \in Slots :
        /\ Done(s) /\ req[s].lookup = "err" /\ req[s].storeErr
        /\ req[s].resp.status = 201

\* C18 as stated: a request whose SET failed completes with the handler's
\* response, and no record exists under its key afterwards.
C18_StoreFailureLeavesNoRecord ==
    \A s \in Slots :
        (Done(s) /\ req[s].storeErr)
          => /\ req[s].failed = "none"
             /\ req[s].resp = Captured(s)
             /\ KeyOf(s) \notin DOMAIN cache

\* C18 amended: a SET that fails leaves the response the handler wrote as the
\* request's response, fails the request at no stage, and leaves the cache as
\* it was.
C18_StoreFailureLeavesCache ==
    [][\A s \in Slots :
          (req[s].pc = "post" /\ req'[s].storeErr)
            => /\ req'[s].pc = "done"
               /\ req'[s].failed = "none"
               /\ req'[s].resp = req[s].resp
               /\ req[s].resp = Captured(s)
               /\ cache' = cache]_vars

\* C18 witness: a request whose lookup and SET both failed completed while
\* the record of an earlier request was still under its key.
C18_Witness ==
    \E s \in Slots :
        /\ Done(s) /\ req[s].storeErr
        /\ req[s].resp = Captured(s)
        /\ KeyOf(s) \in DOMAIN cache

\* C19: a request whose lookup found a value that does not decode fails with
\* the 500 of the idempotency stage: the handler is not invoked, no SET is
\* issued, nothing of the stored value is sent.
C19_CorruptRecordFailsReplay ==
    \A s \in Slots :
        LET r == req[s]
        IN  (Done(s) /\ r.lookup \in {"hit", "corrupt"}
               /\ KeyOf(s) \in DOMAIN cache /\ ~cache[KeyOf(s)].decodable)
              => /\ r.failed = "idempotency"
                 /\ r.resp = HTTPError(500, "corrupted idempotency record")
                 /\ "handler" \notin Range(r.stages)
                 /\ r.cacheOps = 1 /\ ~r.capture

\* C19 witness: the value was stored by the gateway for a response whose body
\* json.Marshal rejected, and the repeated request was answered 500.
C19_Witness ==
    \E s \in Slots :
        /\ Done(s) /\ req[s].lookup = "corrupt"
        /\ OwnRecord(req[s])
        /\ stored[KeyOf(s)].resp.body = <<"x">>
        /\ req[s].resp.status = 500

\* C20: under requests served one after another, the value under a key is
\* written at most once until it expires.
C20_WrittenOnce == \A key \in DOMAIN stored : stored[key].writes <= 1

\* C21: two requests of one pair that both missed on their lookup both invoke
\* the handler, which then has run twice for the pair; each SET replaces the
\* value under the key, so the record that remains is that of the request
\* that wrote last.
C21_NoPerKeyLock ==
    /\ \A s \in RaceSlots :
          req[s].lookup = "miss"
            => (req[s].pc \in {"handler", "post", "done"} /\ req[s].failed = "none")
    /\ \A s, t \in RaceSlots :
          (/\ s # t
           /\ req[s].lookup = "miss" /\ req[t].lookup = "miss"
           /\ PairOf(req[s]) = PairOf(req[t])
           /\ req[s].pc \in {"post", "done"} /\ req[t].pc \in {"post", "done"})
            => Count(PairOf(req[s])) >= 2
    /\ \A s \in RaceSlots :
          (Done(s) /\ req[s].wrote > 0 /\ req[s].wrote = Writes(KeyOf(s)))
            => cache[KeyOf(s)] = MarshalRecord(RecordOf(req[s].recorder))

\* C21 witness: both requests missed, the handler ran twice, both stored, and
\* the record of the one that wrote first is gone.
C21_Witness ==
    \E s, t \in RaceSlots :
        /\ s # t /\ Done(s) /\ Done(t)
        /\ req[s].lookup = "miss" /\ req[t].lookup = "miss"
        /\ Count(PairOf(req[s])) = 2
        /\ req[s].wrote = 1 /\ req[t].wrote = 2
        /\ cache[KeyOf(t)] = MarshalRecord(RecordOf(req[t].recorder))
        /\ cache[KeyOf(t)] # MarshalRecord(RecordOf(req[s].recorder))

\* C22: a request whose method is not POST, PUT or PATCH passes the
\* Idempotency stage untouched: it is not refused there with or without a key,
\* the cache is neither read nor written for it, its response is not captured,
\* and the client receives the handler's response as the handler produced it.
C22_OtherMethodsPassThrough ==
    \A s \in Slots :
        LET r == req[s]
        IN  (~(r.method \in {"POST", "PUT", "PATCH"}) /\ r.pc # "idle"
               /\ "idempotency" \in Range(r.stages))
              => /\ r.failed = "none"
                 /\ r.cacheOps = 0 /\ r.lookup = "none" /\ r.wrote = 0
                 /\ ~r.capture /\ r.recorder = NoRecorder
                 /\ r.pc \in {"handler", "done"}
                 /\ r.pc = "done"
                      => /\ r.stages[Len(r.stages)] = "handler"
                         /\ \E h \in HandlerResponses : r.resp = Sent(h)

\* C22 witness: a GET request without a key has passed the stage and the
\* handler has answered it.
C22_Witness ==
    \E s \in Slots :
        /\ Done(s) /\ req[s].method = "GET" /\ req[s].key = NoKey
        /\ req[s].stages[Len(req[s].stages)] = "handler"
        /\ "idempotency" \in Range(req[s].stages)
        /\ req[s].resp.status = 201

\* C23: once the caller has disconnected before a stage completed, the
\* pipeline aborts: at most the stage in progress is still entered, the
\* handler is not invoked, and no idempotency record is stored for the
\* request.
C23_CancellationAborts ==
    \A s \in Slots :
        LET r == req[s]
        IN  r.cancelled
              => /\ Len(r.stages) <= r.cancelStages + 1
                 /\ "handler" \notin Range(r.stages)
                 /\ r.wrote = 0

\* C24: the cache operations of a request are bounded by a timeout, so a
\* request that has been accepted is eventually answered even when the cache
\* never answers.
C24_CacheCallsBounded ==
    \A s \in Slots : (req[s].pc \in {"mw", "handler", "post"}) ~> Done(s)

\* The (method, path) combinations claim C25 lists.
Listed(method, path) ==
    \/ method = "GET" /\ path = <<"health">>
    \/ method = "GET" /\ path = <<"api", "v1", "whoami">>
    \/ method = "GET" /\ path = <<"api", "v1", "payments">>
    \/ method = "POST" /\ path = <<"api", "v1", "payments">>
    \/ /\ method \in {"GET", "PUT"}
       /\ Len(path) > 3 /\ SubSeq(path, 1, 3) = <<"api", "v1", "payments">>

C26_StatusTransitions ==
    [][\A id \in DOMAIN svc.payments :
         LET before == svc.payments[id]
             after == svc'.payments[id]
             call == svc'.call
             byOwner == call.id = id /\ call.tenantID = before.TenantID
             refused == call.returned.err # "" /\ svc'.payments = svc.payments
         IN  /\ before.Status # after.Status
                  => \/ /\ call.op = "ProcessPayment" /\ byOwner
                        /\ before.Status = "pending" /\ after.Status = "completed"
                     \/ /\ call.op = "CancelPayment" /\ byOwner
                        /\ before.Status \in {"pending", "processing"}
                        /\ after.Status = "cancelled"
             /\ before.Status \in {"completed", "failed", "cancelled"} => after = before
             /\ (byOwner /\ call.op = "ProcessPayment")
                  => IF before.Status = "pending"
                     THEN call.returned.err = "" /\ after.Status = "completed"
                     ELSE refused
             /\ (byOwner /\ call.op = "CancelPayment")
                  => IF before.Status \in {"pending", "processing"}
                     THEN call.returned.err = "" /\ after.Status = "cancelled"
                     ELSE refused
             /\ (byOwner /\ call.op = "UpdatePayment" /\ before.Status # "pending")
                  => refused
      ]_vars

\* C26 witness: one payment was completed and one cancelled, and the owner's
\* CancelPayment of the completed one has returned an error.
C26_Witness ==
    \E id, other \in DOMAIN svc.payments :
        /\ svc.payments[id].Status = "completed" /\ svc.payments[id].CompletedAt
        /\ svc.payments[other].Status = "cancelled"
        /\ svc.call.op = "CancelPayment" /\ svc.call.id = id
        /\ svc.call.tenantID = svc.payments[id].TenantID
        /\ svc.call.returned.err = "payment cannot be cancelled in current status"

\* C27: GetPayment, UpdatePayment, ProcessPayment and CancelPayment called
\* with a tenant id other than the payment's return an error, return no
\* payment and change no payment; ListPayments and GetPaymentStats for a
\* tenant return and count that tenant's payments only.
C27_TenantIsolation ==
    [][LET call == svc'.call
           own == { id \in DOMAIN svc.payments : svc.payments[id].TenantID = call.tenantID }
       IN  /\ (/\ call.op \in {"GetPayment", "UpdatePayment", "ProcessPayment",
                                "CancelPayment"}
               /\ call.id \in DOMAIN svc.payments
               /\ svc.payments[call.id].TenantID # call.tenantID)
                => /\ call.returned.err # ""
                   /\ call.returned.payment = NoPayment
                   /\ svc'.payments = svc.payments
           /\ call.op = "ListPayments"
                => /\ \A payment \in call.returned.items :
                         payment.TenantID = call.tenantID
                   /\ call.returned.total <= Cardinality(own)
           /\ call.op = "GetPaymentStats"
                => /\ call.returned.stats.TotalCount = Cardinality(own)
                   /\ call.returned.stats.TotalAmount = 5 * Cardinality(own)
                   /\ call.returned.stats.PendingCount =
                        Cardinality({ id \in own : svc.payments[id].Status = "pending" })
                   /\ call.returned.stats.CompletedCount =
                        Cardinality({ id \in own : svc.payments[id].Status = "completed" })
      ]_vars

\* C27 witness: two tenants own a payment each and one tenant's GetPayment of
\* the other's payment was refused.
C27_Witness ==
    \E id, other \in DOMAIN svc.payments :
        /\ svc.payments[id].TenantID # svc.payments[other].TenantID
        /\ svc.call.op = "GetPayment" /\ svc.call.id = id
        /\ svc.call.tenantID = svc.payments[other].TenantID
        /\ svc.call.returned.err = "access denied"

\* C28: a recorded success sets the failure count to 0 and a recorded failure
\* adds 1 to it; the breaker goes from Closed to Open exactly when the count
\* reaches maxFailures, so a Closed breaker has fewer failures than that; a
\* call that finds the breaker Open less than resetTimeout after the last
\* failure returns ErrCircuitBreakerOpen and never invokes the function.
C28_OpensAndRejects ==
    [][LET b == cb.breaker
           after == cb'.breaker
       IN  /\ after.state = "Closed" => after.failures < 2
           /\ (b.state = "Closed" /\ after.state = "Open") => after.failures = 2
           /\ \A t \in BreakerTasks :
                 (cb.task[t].pc = "record" /\ cb'.task[t] # cb.task[t])
                   => IF cb.task[t].first.err = ""
                      THEN after.failures = 0
                      ELSE /\ after.failures = b.failures + 1
                           /\ after.lastFailTime = cb.now
                           /\ after.failures >= 2 => after.state = "Open"
           /\ \A t \in BreakerTasks :
                 (/\ cb.task[t].pc = "allow" /\ cb'.task[t] # cb.task[t]
                  /\ b.state = "Open" /\ cb.now - b.lastFailTime < 2)
                   => /\ cb'.task[t].pc = "done"
                      /\ cb'.task[t].returned.err = "circuit breaker is open"
                      /\ ~cb'.task[t].admitted
           /\ \A t \in BreakerTasks :
                 ~cb'.task[t].admitted => cb'.task[t].invoked = 0
      ]_vars

\* C28 witness: two failures in a row have opened the breaker and a call made
\* before the reset timeout has been rejected without running the function.
C28_Witness ==
    \E t \in BreakerTasks :
        /\ cb.breaker.state = "Open" /\ cb.breaker.failures = 2
        /\ cb.now - cb.breaker.lastFailTime < 2
        /\ cb.task[t].pc = "done" /\ cb.task[t].saw = "Open"
        /\ cb.task[t].returned.err = "circuit breaker is open"
        /\ cb.task[t].invoked = 0

\* C29: a call that finds the breaker Open once resetTimeout has passed since
\* the last failure is admitted and puts the breaker in HalfOpen; when that
\* call's function succeeds the breaker is Closed.
C29_ProbeCloses ==
    [][\A t \in BreakerTasks :
         /\ (/\ cb.task[t].pc = "allow" /\ cb'.task[t] # cb.task[t]
             /\ cb.breaker.state = "Open"
             /\ cb.now - cb.breaker.lastFailTime >= 2)
              => cb'.task[t].admitted /\ cb'.breaker.state = "HalfOpen"
         /\ (/\ cb.task[t].pc = "record" /\ cb'.task[t] # cb.task[t]
             /\ cb.task[t].saw \in {"Open", "HalfOpen"}
             /\ cb.task[t].first.err = "")
              => cb'.breaker.state = "Closed"
      ]_vars

\* C30: a call of ExecuteWithResult that was admitted has invoked the function
\* once, recorded one result and returns what the function returned; one
\* that was rejected has not invoked it.
C30_InvokedOnce ==
    \A t \in BreakerTasks :
        LET call == cb.task[t]
        IN  (call.pc = "done" /\ call.op = "ExecuteWithResult")
              => IF call.admitted
                 THEN /\ call.invoked = 1 /\ call.recorded = 1
                      /\ call.returned.err = call.first.err
                      /\ call.first.err = "" => call.returned = call.first
                 ELSE call.invoked = 0 /\ call.recorded = 0

\* The caller's RetryableErrors answers false for the error.
Rejected(config, err) == config.RetryableErrors = "IsRetryableError" /\ err # "timeout"

\* C31: RetryWithContext invokes fn at most MaxAttempts times; an attempt
\* follows only attempts that failed with errors RetryableErrors accepts; no
\* attempt starts once the context is done; it returns nil exactly after an
\* attempt that succeeded, the attempt's error after one whose error is
\* rejected, the context's error only when the context is done and attempts
\* are left, and the error wrapping the last attempt's error after
\* MaxAttempts failed attempts.
C31_RetryBounded ==
    [][LET r == retry'
           n == Len(r.errs)
       IN  /\ n <= r.config.MaxAttempts
           /\ \A i \in 1..(n - 1) : r.errs[i] # "" /\ ~Rejected(r.config, r.errs[i])
           /\ (retry.ctxDone /\ retry.pc # "fn" /\ r.pc # "idle")
                => Len(r.errs) = Len(retry.errs)
           /\ (retry.pc = "loop" /\ retry.ctxDone /\ r.pc # "loop"
                  /\ retry.attempt <= retry.config.MaxAttempts)
                => r.pc = "done" /\ r.returned = "context canceled"
           /\ r.pc = "done"
                => /\ (n > 0 /\ r.errs[n] = "") <=> r.returned = ""
                   /\ (n > 0 /\ Rejected(r.config, r.errs[n])) => r.returned = r.errs[n]
                   /\ r.returned = "context canceled"
                        => r.ctxDone /\ n < r.config.MaxAttempts
                   /\ (/\ n = r.config.MaxAttempts /\ n > 0
                       /\ r.errs[n] # "" /\ ~Rejected(r.config, r.errs[n]))
                        => r.returned = "max retry attempts reached, last error: "
                                          \o r.errs[n]
      ]_vars

\* C31 witness: three attempts failed with a retryable error and the call
\* returned the error that wraps the last one.
C31_Witness ==
    /\ retry.pc = "done" /\ retry.config.MaxAttempts = 3
    /\ retry.config.RetryableErrors = "IsRetryableError"
    /\ retry.errs = <<"timeout", "timeout", "timeout">>
    /\ retry.returned = "max retry attempts reached, last error: timeout"

\* C32: the k-th wait of a call is min(InitialDelay * BackoffFactor^(k-1),
\* MaxDelay); the waits do not decrease and none exceeds MaxDelay; a wait
\* follows a failed attempt, and there are at most MaxAttempts - 1 of them, so
\* none follows the final attempt.
C32_ExponentialBackoff ==
    LET c == retry.config
        w == retry.waits
        uncapped(k) == c.InitialDelay * Pow(c.BackoffFactor, k - 1)
    IN  /\ \A k \in 1..Len(w) :
              /\ w[k] = IF uncapped(k) < c.MaxDelay THEN uncapped(k) ELSE c.MaxDelay
              /\ w[k] <= c.MaxDelay
              /\ k > 1 => w[k - 1] <= w[k]
        /\ Len(w) <= Len(retry.errs)
        /\ Len(w) > 0 => Len(w) <= c.MaxAttempts - 1

\* C32 witness: a wait of 2 ticks, then one that MaxDelay = 3 caps below 4,
\* and no wait after the third attempt.
C32_Witness ==
    /\ retry.config.InitialDelay = 2 /\ retry.config.BackoffFactor = 2
    /\ retry.config.MaxDelay = 3
    /\ retry.waits = <<2, 3>>
    /\ Len(retry.errs) = 3 /\ retry.pc = "done"

\* C33: a job is re-queued with Retries at most maxRetries, and a job that
\* was enqueued is executed at most maxRetries + 1 times.
C33_RetryBound ==
    /\ \A z \in worker.delayed : z.job.retries <= maxRetries
    /\ \A i \in 1..Len(worker.queue) : worker.queue[i].retries <= maxRetries
    /\ \A id \in DOMAIN worker.executed : worker.executed[id] <= maxRetries + 1

\* C34: ProcessDelayedJobs moves a member of the delayed set to the main queue
\* at most once, and a member that was moved is no longer in the delayed set
\* once the loop has passed it.
C34_MovedOnce ==
    \A job \in DOMAIN worker.moved :
        /\ worker.moved[job] <= 1
        /\ \A z \in worker.delayed : z.job # job

\* C35: the server GetNextServer picks is in the server set and its Healthy
\* flag is true when it is picked; it picks none exactly when no server of the
\* set is healthy, and the handler then answers 503 and has proxied nothing;
\* a handler that had a server does not answer 503.
C35_HealthySelected ==
    [][\A t \in ProxyTasks :
         LET r == lb'.reqs[t]
         IN  /\ (lb.reqs[t].pc = "idle" /\ r.pc = "selected")
                  => /\ r.server # 0
                          => /\ \E i \in 1..Len(lb.servers) : lb.servers[i] = r.server
                             /\ lb.srv[r.server].healthy
                     /\ r.server = 0
                          <=> \A i \in 1..Len(lb.servers) : ~lb.srv[lb.servers[i]].healthy
             /\ (lb.reqs[t].pc # "done" /\ r.pc = "done")
                  => /\ r.status = 503 <=> r.server = 0
                     /\ r.status = 503 => ~r.proxied /\ lb'.srv = lb.srv
      ]_vars

\* C35 witness: the second request was given a healthy server that stands
\* behind an unhealthy one in the server set.
C35_Witness ==
    /\ lb.begun = 2 /\ lb.reqs[1].pc = "selected"
    /\ lb.reqs[1].server # 0 /\ lb.srv[lb.reqs[1].server].healthy
    /\ Len(lb.servers) >= 2
    /\ ~lb.srv[lb.servers[1]].healthy
    /\ lb.servers[1] # lb.reqs[1].server

\* C36: a server's Connections is never negative, and whenever no handler is
\* in the middle of changing it, it is the number of requests being proxied
\* to the server, so 0 when there are none.
C36_ConnectionsInFlight ==
    \A p \in 1..Len(lb.srv) :
        /\ lb.srv[p].connections >= 0
        /\ (\A t \in ProxyTasks : lb.reqs[t].pc \notin {"incw", "decw"})
             => lb.srv[p].connections =
                    Cardinality({t \in ProxyTasks : /\ lb.reqs[t].pc = "serve"
                                                    /\ lb.reqs[t].server = p})

\* C37: the servers the health checker probes are the servers of the load
\* balancer.
C37_CheckerFollowsServers ==
    lb.up => Range(lb.array) = Range(lb.servers)

\* C38: in a run of Up the migrations are executed in ascending version
\* order and none has a version that was recorded when the run began; over
\* all runs no version is applied twice and schema_migrations holds the
\* versions applied; a run that succeeds leaves every loaded version
\* recorded, and a run that finds every loaded version recorded executes
\* nothing and leaves the database as it was.
C38_UpAppliesPendingOnce ==
    LET ran == mig.ran
        effects == mig.db.effects
    IN  /\ \A i, j \in 1..Len(ran) :
               i < j => ~StringLess(ran[j].version, ran[i].version)
        /\ \A i, j \in 1..Len(mig.committed) :
               i < j => StringLess(mig.committed[i].version, mig.committed[j].version)
        /\ \A k \in 1..Len(ran) : ran[k].version \notin mig.before.versions
        /\ \A i, j \in 1..Len(effects) : i # j => effects[i].version # effects[j].version
        /\ mig.db.versions = {effects[k].version : k \in 1..Len(effects)}
        /\ (mig.pc = "done" /\ mig.returned = "")
             => \A k \in 1..Len(mig.list) : mig.list[k].version \in mig.db.versions
        /\ (/\ mig.pc \in {"loop", "done"}
            /\ \A k \in 1..Len(mig.list) : mig.list[k].version \in mig.before.versions)
             => ran = <<>> /\ mig.db = mig.before

\* C38 witness: the second run of Up over three migrations that the first run
\* applied has returned nil and executed nothing.
C38_Witness ==
    /\ mig.calls = 2 /\ mig.pc = "done" /\ mig.returned = ""
    /\ Len(mig.list) = 3 /\ Len(mig.db.effects) = 3
    /\ mig.ran = <<>> /\ mig.db = mig.before

\* C39 as stated: after a failed migration Up has returned an error, the
\* version of the failed migration is not recorded and its effects are not
\* kept, the migrations committed before it are applied and recorded, and no
\* later migration was attempted.
C39_FailedNotRecorded ==
    (mig.pc = "done" /\ mig.failed # 0)
        => /\ mig.returned # ""
           /\ mig.list[mig.failed].version \notin mig.db.versions
           /\ \A k \in 1..Len(mig.db.effects) : mig.db.effects[k] # mig.list[mig.failed]
           /\ \A k \in 1..Len(mig.committed) :
                  /\ mig.committed[k].version \in mig.db.versions
                  /\ \E e \in 1..Len(mig.db.effects) : mig.db.effects[e] = mig.committed[k]
           /\ \A k \in (mig.failed + 1)..Len(mig.list) :
                  \A r \in 1..Len(mig.ran) : mig.ran[r] # mig.list[k]

\* C39: after a failed migration Up has returned an error, the database is
\* as it was before the failed migration began, so the migration has recorded
\* nothing and none of its effects are kept (its version is recorded only if
\* it was before); the migrations committed before it are applied and
\* recorded, and no later migration was attempted.
C39_FailedKeepsNothing ==
    (mig.pc = "done" /\ mig.failed # 0)
        => /\ mig.returned # ""
           /\ mig.db = mig.attempted
           /\ \A k \in 1..Len(mig.db.effects) : mig.db.effects[k] # mig.list[mig.failed]
           /\ \A k \in 1..Len(mig.committed) :
                  /\ mig.committed[k].version \in mig.db.versions
                  /\ \E e \in 1..Len(mig.db.effects) : mig.db.effects[e] = mig.committed[k]
           /\ \A k \in (mig.failed + 1)..Len(mig.list) :
                  \A r \in 1..Len(mig.ran) : mig.ran[r] # mig.list[k]
           /\ mig.i = mig.failed

\* C39 witness: the second of three migrations failed at its commit after the
\* first was committed.
C39_Witness ==
    /\ mig.pc = "done" /\ mig.failed = 2 /\ Len(mig.list) = 3
    /\ Len(mig.committed) = 1
    /\ mig.returned = "failed to commit migration"
    /\ mig.list[2].version \notin mig.db.versions
    /\ mig.list[1].version \in mig.db.versions

====
